---- MODULE Spec2Model ----
(***************************************************************************)
(* Ledger store (database.py), operation executor (agents/write_agent.py)  *)
(* and request pipeline (graph.py, agents/router.py, agents/resolver.py,   *)
(* agents/read_agent.py) of the beans-assistant repository.                *)
(*                                                                         *)
(* A Python dict is a TLA+ record whose DOMAIN is the set of keys present. *)
(* A raised exception is the "status" of an operation result; the          *)
(* get_conn context manager commits on normal exit and rolls back on an    *)
(* exception, so a failing database function returns the database it got.  *)
(* Money is kept in cents; profit_usd = profit_cents / 100.0.              *)
(***************************************************************************)
EXTENDS Integers, Sequences, FiniteSets, TLC

\* ---------------------------------------------------------------- bounds
MaxMovements == 2     \* stock movements that requests may append to the initial ones
MaxSales     == 1     \* sales ever registered
MaxExpenses  == 1     \* expenses ever registered
MaxQty       == 2     \* largest quantity in a request
MaxItems     == 2     \* items of one sale or stock request
MaxOps       == 3     \* operations registered before a cancellation of the last one
MaxClock     == 2     \* seconds that pass while they are registered
MaxMessages  == 6     \* messages that the WhatsApp server receives
MaxHours     == 3     \* hours that pass while it receives them
MaxUndoRows  == 5     \* stock movements written while operations are registered and cancelled
MaxConns     == 2     \* connections that register a sale at the same time

\* ------------------------------------------------------------ strings
\* A Python str is the sequence of its characters.
Sp == << " " >>

UpperCase == << "A","B","C","D","E","F","G","H","I","J","K","L","M",
                "N","O","P","Q","R","S","T","U","V","W","X","Y","Z" >>
LowerCase == << "a","b","c","d","e","f","g","h","i","j","k","l","m",
                "n","o","p","q","r","s","t","u","v","w","x","y","z" >>
Accented   == << "á", "é", "í", "ó", "ú", "ñ" >>
Unaccented == << "a", "e", "i", "o", "u", "n" >>

MapChar(c, from, to) ==
  IF \E i \in DOMAIN from : from[i] = c
    THEN to[CHOOSE i \in DOMAIN from : from[i] = c]
    ELSE c

\* str.lower()
Lower(s) == [i \in DOMAIN s |-> MapChar(s[i], UpperCase, LowerCase)]

\* sub in s
Infix(sub, s) ==
  \E i \in 0..(Len(s) - Len(sub)) : SubSeq(s, i + 1, i + Len(sub)) = sub

\* s.endswith(suffix)
EndsWith(s, suffix) ==
  Len(suffix) <= Len(s) /\ SubSeq(s, Len(s) - Len(suffix) + 1, Len(s)) = suffix

\* s.split(): the maximal runs of characters other than the space
RECURSIVE SplitFrom(_, _)
SplitFrom(s, word) ==
  IF s = << >> THEN (IF word = << >> THEN << >> ELSE << word >>)
  ELSE IF Head(s) = " "
    THEN (IF word = << >> THEN << >> ELSE << word >>) \o SplitFrom(Tail(s), << >>)
    ELSE SplitFrom(Tail(s), Append(word, Head(s)))

Split(s) == SplitFrom(s, << >>)

\* " ".join(words)
RECURSIVE Join(_)
Join(words) ==
  IF words = << >> THEN << >>
  ELSE IF Len(words) = 1 THEN words[1]
  ELSE words[1] \o Sp \o Join(Tail(words))

\* s.replace(old, new), old not empty
RECURSIVE Replace(_, _, _)
Replace(s, old, new) ==
  IF Len(s) < Len(old) THEN s
  ELSE IF SubSeq(s, 1, Len(old)) = old
    THEN new \o Replace(SubSeq(s, Len(old) + 1, Len(s)), old, new)
    ELSE << Head(s) >> \o Replace(Tail(s), old, new)

\* normalize_text: accents removed, lower case
normalize_text(text) ==
  Lower([i \in DOMAIN text |-> MapChar(text[i], Accented, Unaccented)])

\* ------------------------------------------------------------ catalog
\* the words of the product names and of the requests
pulsera  == << "p","u","l","s","e","r","a" >>
pulseras == pulsera \o << "s" >>
negra    == << "n","e","g","r","a" >>
dorada   == << "d","o","r","a","d","a" >>
anillo   == << "a","n","i","l","l","o" >>
aros     == << "a","r","o","s" >>
SkuBlack == << "B","C","-","B","R","A","C","E","L","E","T","-","B","L","A","C","K" >>
SkuGold  == << "B","C","-","B","R","A","C","E","L","E","T","-","G","O","L","D" >>
NameStem == << "P","u","l","s","e","r","a"," ","d","e"," ","G","r","a","n","o","s",
               " ","d","e"," ","C","a","f","é"," ","-"," " >>

\* products table after the populated_db fixture (two of its rows, with the
\* names the Spanish migration gives them)
Catalog ==
  << [sku |-> SkuBlack, name |-> NameStem \o << "N","e","g","r","a" >>,
      unit_price_cents |-> 3500, is_active |-> 1],
     [sku |-> SkuGold,  name |-> NameStem \o << "D","o","r","a","d","a" >>,
      unit_price_cents |-> 3500, is_active |-> 1] >>

ProductIds == DOMAIN Catalog

VARIABLES
  products,          \* products table: id -> row
  stock_movements,   \* stock_movements table, in id order (id = index)
  sales,             \* sales table, rows in id order
  sale_items,        \* sale_items table
  expenses,          \* expenses table
  sale_seq,          \* AUTOINCREMENT counter of sales
  expense_seq,       \* AUTOINCREMENT counter of expenses
  now,               \* CURRENT_TIMESTAMP (seconds)
  last,              \* the last operation applied and its outcome
  pre_sale,          \* views as they were before the sale registered last
  pc,                \* the node of the graph that runs next
  st,                \* the AgentState of the request
  path,              \* the nodes that have run, in order
  db0,               \* the database as it was when the request arrived
  classified,        \* what the classifier chain returned for the request
  seen,              \* what the analytics read from the database
  registered,        \* the operations registered, oldest first
  resolution,        \* a product reference and what the resolver made of it
  conversation_history, \* whatsapp_server: chat_id -> the messages kept
  txn,               \* the register_sale calls in progress, each on its connection
  DB_PATH,           \* database.DB_PATH in each server process
  databases          \* the database files: path -> ledger

vars == << products, stock_movements, sales, sale_items, expenses,
           sale_seq, expense_seq, now, last, pre_sale, pc, st, path, db0,
           classified, seen, registered, resolution,
           conversation_history, txn, DB_PATH, databases >>

\* the state of the servers around the graph
server == << conversation_history, txn, DB_PATH, databases >>

ledger == << products, stock_movements, sales, sale_items, expenses,
             sale_seq, expense_seq >>

\* the database as one value
DB == [ products |-> products, stock_movements |-> stock_movements,
        sales |-> sales, sale_items |-> sale_items, expenses |-> expenses,
        sale_seq |-> sale_seq, expense_seq |-> expense_seq ]

Commit(D) ==
  /\ products' = D.products
  /\ stock_movements' = D.stock_movements
  /\ sales' = D.sales
  /\ sale_items' = D.sale_items
  /\ expenses' = D.expenses
  /\ sale_seq' = D.sale_seq
  /\ expense_seq' = D.expense_seq

Has(d, k) == k \in DOMAIN d

\* ------------------------------------------------------------- schema
MovementTypes == {"IN", "OUT", "ADJUSTMENT"}
SaleStatuses  == {"PAID", "PENDING", "CANCELLED"}

\* ------------------------------------------------------------- views
\* (mutation) the view counts IN only and forgets ADJUSTMENT
MovementEffect_InOnly(m) ==
  IF m.movement_type = "IN" THEN m.quantity
  ELSE IF m.movement_type = "OUT" THEN -m.quantity
  ELSE 0

\* the CASE expression of the stock_current view
MovementEffect(m) ==
  IF m.movement_type \in {"IN", "ADJUSTMENT"} THEN m.quantity
  ELSE IF m.movement_type = "OUT" THEN -m.quantity
  ELSE 0

RECURSIVE ViewSum(_, _)
ViewSum(ms, p) ==
  IF ms = << >> THEN 0
  ELSE (IF Head(ms).product_id = p THEN MovementEffect(Head(ms)) ELSE 0)
       + ViewSum(Tail(ms), p)

\* the products that have a row in the stock_current view
StockViewRows(D) == { p \in DOMAIN D.products : D.products[p].is_active = 1 }

\* stock_qty of the row of product p in the stock_current view
stock_current(D, p) == ViewSum(D.stock_movements, p)

RECURSIVE SumField(_, _)
SumField(rows, f) ==
  IF rows = << >> THEN 0 ELSE Head(rows)[f] + SumField(Tail(rows), f)

\* (mutation) the revenue counts the sales of every status
revenue_paid_AnyStatus(D) == SumField(D.sales, "total_amount_cents")

revenue_paid(D) ==
  SumField(SelectSeq(D.sales, LAMBDA s : s.status = "PAID"), "total_amount_cents")

expenses_total(D) == SumField(D.expenses, "amount_cents")

\* profit_summary, in cents
profit_summary(D) == revenue_paid(D) - expenses_total(D)

\* ------------------------------------------------ results of operations
Ok(D, info)     == [status |-> "ok", db |-> D, info |-> info]
Raise(D, e, why) == [status |-> e, db |-> D, info |-> [why |-> why]]

Movement(p, t, q, ts) ==
  [product_id |-> p, movement_type |-> t, quantity |-> q, created_at |-> ts]

\* INSERT INTO stock_movements with the CHECK constraints of the table
InsertMovementOk(m) == m.movement_type \in MovementTypes /\ m.quantity # 0

\* ---------------------------------------------------------- add_stock
add_stock(D, data, ts) ==
  LET movement_type == IF Has(data, "movement_type") THEN data.movement_type ELSE "IN"
  IN IF ~Has(data, "product_id") \/ ~Has(data, "quantity")
       THEN Raise(D, "KeyError", "field")
     ELSE LET m == Movement(data.product_id, movement_type, data.quantity, ts)
          IN IF ~InsertMovementOk(m) THEN Raise(D, "IntegrityError", "check")
             ELSE LET D2 == [D EXCEPT !.stock_movements = Append(@, m)]
                  IN Ok(D2, [product_id |-> data.product_id,
                             has_stock |-> data.product_id \in StockViewRows(D2),
                             current_stock |-> stock_current(D2, data.product_id)])

\* -------------------------------------------------------- remove_stock
remove_stock(D, data, ts) ==
  LET movement_type == IF Has(data, "movement_type") THEN data.movement_type ELSE "OUT"
  IN IF ~Has(data, "product_id") \/ ~Has(data, "quantity")
       THEN Raise(D, "KeyError", "field")
     ELSE LET m == Movement(data.product_id, movement_type, data.quantity, ts)
          IN IF ~InsertMovementOk(m) THEN Raise(D, "IntegrityError", "check")
             ELSE LET D2 == [D EXCEPT !.stock_movements = Append(@, m)]
                  IN Ok(D2, [product_id |-> data.product_id,
                             has_stock |-> data.product_id \in StockViewRows(D2),
                             current_stock |-> stock_current(D2, data.product_id)])

\* ----------------------------------------------------- register_expense
register_expense(D, data, ts) ==
  IF ~Has(data, "amount_cents") THEN Raise(D, "KeyError", "field")
  ELSE IF data.amount_cents < 0 THEN Raise(D, "IntegrityError", "check")
  ELSE LET id == D.expense_seq + 1
           D2 == [D EXCEPT !.expenses = Append(@, [id |-> id,
                                 amount_cents |-> data.amount_cents,
                                 created_at |-> ts]),
                           !.expense_seq = id]
       IN Ok(D2, [expense_id |-> id, profit |-> profit_summary(D2)])

\* -------------------------------------------------------- register_sale
\* step 1: product_ref -> product_id of the items that carry no product_id
RefMatches(D, ref) ==
  { p \in DOMAIN D.products : D.products[p].sku = ref \/ D.products[p].name = ref }

Min(S) == CHOOSE x \in S : \A y \in S : x <= y
Max(S) == CHOOSE x \in S : \A y \in S : y <= x

RECURSIVE SaleResolveItems(_, _)
SaleResolveItems(D, raw_items) ==
  IF raw_items = << >> THEN [status |-> "ok", items |-> << >>]
  ELSE LET item == Head(raw_items)
           rest == SaleResolveItems(D, Tail(raw_items))
       IN IF Has(item, "product_id")
            THEN IF rest.status = "ok"
                   THEN [status |-> "ok", items |-> << item >> \o rest.items]
                   ELSE rest
          ELSE IF ~Has(item, "product_ref")
            THEN [status |-> "ValueError", why |-> "no_ref"]
          ELSE IF RefMatches(D, item.product_ref) = {}
            THEN [status |-> "ValueError", why |-> "unknown_ref"]
          ELSE IF rest.status = "ok"
            THEN [status |-> "ok",
                  items |-> << [k \in DOMAIN item \cup {"product_id"} |->
                                 IF k = "product_id"
                                   THEN Min(RefMatches(D, item.product_ref))
                                   ELSE item[k]] >> \o rest.items]
          ELSE rest

\* what register_sale reads as available:
\* COALESCE(s.stock_qty, 0) over products LEFT JOIN stock_current
SaleAvailable(D, p) ==
  IF p \in StockViewRows(D) THEN stock_current(D, p) ELSE 0

\* (mutation) only the first item of the sale is validated
SaleValidateStock_FirstOnly(D, items) ==
  IF items = << >> THEN [status |-> "ok"]
  ELSE IF SaleAvailable(D, Head(items).product_id) < Head(items).quantity
    THEN [status |-> "ValueError", why |-> "insufficient_stock"]
  ELSE [status |-> "ok"]

\* step 2: the stock validation loop; the first failing item raises
RECURSIVE SaleValidateStock(_, _)
SaleValidateStock(D, items) ==
  IF items = << >> THEN [status |-> "ok"]
  ELSE LET item == Head(items)
       IN IF item.product_id \notin DOMAIN D.products
            THEN [status |-> "ValueError", why |-> "no_product"]
          ELSE IF ~Has(item, "quantity")
            THEN [status |-> "KeyError", why |-> "field"]
          ELSE IF SaleAvailable(D, item.product_id) < item.quantity
            THEN [status |-> "ValueError", why |-> "insufficient_stock"]
          ELSE SaleValidateStock(D, Tail(items))

\* (mutation) the catalog price is used whatever the item says
RECURSIVE SaleEnrich_CatalogPrice(_, _)
SaleEnrich_CatalogPrice(D, items) ==
  IF items = << >> THEN [status |-> "ok", items |-> << >>]
  ELSE LET rest == SaleEnrich_CatalogPrice(D, Tail(items))
           price == D.products[Head(items).product_id].unit_price_cents
       IN [status |-> "ok",
           items |-> << [product_id |-> Head(items).product_id,
                         quantity |-> Head(items).quantity,
                         unit_price_cents |-> price,
                         line_total_cents |-> price * Head(items).quantity] >>
                     \o rest.items]

\* step 3: price and line total of every item
RECURSIVE SaleEnrich(_, _)
SaleEnrich(D, items) ==
  IF items = << >> THEN [status |-> "ok", items |-> << >>]
  ELSE LET item == Head(items)
           rest == SaleEnrich(D, Tail(items))
       IN IF ~Has(item, "unit_price_cents") /\ item.product_id \notin DOMAIN D.products
            THEN [status |-> "TypeError", why |-> "no_product"]
          ELSE IF ~Has(item, "quantity")
            THEN [status |-> "KeyError", why |-> "field"]
          ELSE IF rest.status # "ok" THEN rest
          ELSE LET price == IF Has(item, "unit_price_cents")
                              THEN item.unit_price_cents
                              ELSE D.products[item.product_id].unit_price_cents
               IN [status |-> "ok",
                   items |-> << [product_id |-> item.product_id,
                                 quantity |-> item.quantity,
                                 unit_price_cents |-> price,
                                 line_total_cents |-> price * item.quantity] >>
                             \o rest.items]

\* step 5: one sale_items row per item and, for a PAID sale, one OUT movement
RECURSIVE SaleItemRows(_, _)
SaleItemRows(sale_id, items) ==
  IF items = << >> THEN << >>
  ELSE << [sale_id |-> sale_id,
           product_id |-> Head(items).product_id,
           quantity |-> Head(items).quantity,
           unit_price_cents |-> Head(items).unit_price_cents,
           line_total_cents |-> Head(items).line_total_cents] >>
       \o SaleItemRows(sale_id, Tail(items))

\* (mutation) only the first item of a PAID sale leaves the stock
SaleOutMovements_FirstOnly(items, ts) ==
  IF items = << >> THEN << >>
  ELSE << Movement(Head(items).product_id, "OUT", Head(items).quantity, ts) >>

RECURSIVE SaleOutMovements(_, _)
SaleOutMovements(items, ts) ==
  IF items = << >> THEN << >>
  ELSE << Movement(Head(items).product_id, "OUT", Head(items).quantity, ts) >>
       \o SaleOutMovements(Tail(items), ts)

register_sale(D, data, ts) ==
  LET status == IF Has(data, "status") THEN data.status ELSE "PAID"
      r1 == SaleResolveItems(D, data.items)
  IN IF r1.status # "ok" THEN Raise(D, r1.status, r1.why)
     ELSE LET r2 == IF status = "PAID" THEN SaleValidateStock(D, r1.items)
                                       ELSE [status |-> "ok"]
          IN IF r2.status # "ok" THEN Raise(D, r2.status, r2.why)
             ELSE LET r3 == SaleEnrich(D, r1.items)
                  IN IF r3.status # "ok" THEN Raise(D, r3.status, r3.why)
                     ELSE LET total_cents == SumField(r3.items, "line_total_cents")
                              sale_id == D.sale_seq + 1
                          IN IF total_cents < 0 \/ status \notin SaleStatuses
                               THEN Raise(D, "IntegrityError", "check")
                             ELSE IF \E i \in DOMAIN r3.items : r3.items[i].quantity <= 0
                               THEN Raise(D, "IntegrityError", "check")
                             ELSE LET D2 ==
                                        [D EXCEPT
                                          !.sales = Append(@, [id |-> sale_id,
                                                     total_amount_cents |-> total_cents,
                                                     status |-> status,
                                                     created_at |-> ts]),
                                          !.sale_seq = sale_id,
                                          !.sale_items = @ \o SaleItemRows(sale_id, r3.items),
                                          !.stock_movements =
                                             IF status = "PAID"
                                               THEN @ \o SaleOutMovements(r3.items, ts)
                                               ELSE @]
                                  IN Ok(D2, [sale_id |-> sale_id,
                                             total |-> total_cents,
                                             revenue |-> revenue_paid(D2),
                                             profit |-> profit_summary(D2)])

\* ----------------------------------------------------------- cancel_sale
\* (mutation) the stock of a cancelled sale is not put back
SaleInMovements_None(items, ts) == << >>

\* the IN movements that give back the stock of a cancelled PAID sale
RECURSIVE SaleInMovements(_, _)
SaleInMovements(items, ts) ==
  IF items = << >> THEN << >>
  ELSE << Movement(Head(items).product_id, "IN", Head(items).quantity, ts) >>
       \o SaleInMovements(Tail(items), ts)

cancel_sale(D, sale_id, ts) ==
  LET found == SelectSeq(D.sales, LAMBDA s : s.id = sale_id)
  IN IF found = << >> THEN Raise(D, "ValueError", "no_sale")
     ELSE LET sale  == found[1]
              items == SelectSeq(D.sale_items, LAMBDA i : i.sale_id = sale_id)
              D2 == [D EXCEPT
                       !.stock_movements =
                          IF sale.status = "PAID" THEN @ \o SaleInMovements(items, ts)
                                                  ELSE @,
                       !.sale_items = SelectSeq(@, LAMBDA i : i.sale_id # sale_id),
                       !.sales = SelectSeq(@, LAMBDA s : s.id # sale_id)]
          IN Ok(D2, [cancelled_amount |-> sale.total_amount_cents,
                     revenue |-> revenue_paid(D2),
                     profit |-> profit_summary(D2)])

\* -------------------------------------------------------- cancel_expense
cancel_expense(D, expense_id) ==
  IF SelectSeq(D.expenses, LAMBDA e : e.id = expense_id) = << >>
    THEN Raise(D, "ValueError", "no_expense")
  ELSE LET D2 == [D EXCEPT !.expenses = SelectSeq(@, LAMBDA e : e.id # expense_id)]
       IN Ok(D2, [profit |-> profit_summary(D2)])

\* ------------------------------------------------- cancel_stock_movement
\* (mutation) the cancelled movement is deleted from the history
cancel_stock_movement_Delete(D, movement_id, ts) ==
  IF movement_id \notin DOMAIN D.stock_movements
    THEN Raise(D, "ValueError", "no_movement")
  ELSE Ok([D EXCEPT !.stock_movements =
                      SubSeq(@, 1, movement_id - 1) \o SubSeq(@, movement_id + 1, Len(@))],
          [product_id |-> D.stock_movements[movement_id].product_id])

cancel_stock_movement(D, movement_id, ts) ==
  IF movement_id \notin DOMAIN D.stock_movements
     \/ D.stock_movements[movement_id].product_id \notin DOMAIN D.products
    THEN Raise(D, "ValueError", "no_movement")
  ELSE LET movement == D.stock_movements[movement_id]
       IN IF movement.movement_type \notin {"IN", "ADJUSTMENT"}
            THEN Raise(D, "ValueError", "not_cancellable")
          ELSE LET m == Movement(movement.product_id, "ADJUSTMENT",
                                 -movement.quantity, ts)
                   D2 == [D EXCEPT !.stock_movements = Append(@, m)]
               IN Ok(D2, [product_id |-> movement.product_id,
                          cancelled_quantity |-> movement.quantity,
                          current_stock |-> SaleAvailable(D2, movement.product_id)])

\* ---------------------------------------------------- deactivate_product
deactivate_product(D, product_id) ==
  IF product_id \notin DOMAIN D.products THEN Raise(D, "ValueError", "no_product")
  ELSE IF D.products[product_id].is_active = 0
    THEN Raise(D, "ValueError", "already_inactive")
  ELSE Ok([D EXCEPT !.products[product_id].is_active = 0],
          [product_id |-> product_id])

\* ------------------------------------------------------ register_product
register_product(D, data) ==
  IF ~Has(data, "sku") \/ ~Has(data, "name") \/ ~Has(data, "unit_price_cents")
    THEN Raise(D, "IntegrityError", "not_null")
  ELSE IF \E p \in DOMAIN D.products : D.products[p].sku = data.sku
    THEN Raise(D, "ValueError", "duplicate_sku")
  ELSE IF data.unit_price_cents < 0
    THEN Raise(D, "IntegrityError", "check")
  ELSE Ok([D EXCEPT !.products = Append(@, [sku |-> data.sku, name |-> data.name,
                                           unit_price_cents |-> data.unit_price_cents,
                                           is_active |-> 1])],
          [sku |-> data.sku])

\* ------------------------------------------------------ last operations
\* ORDER BY created_at DESC LIMIT 1: a row with the greatest created_at;
\* which of several such rows is returned is left to the query planner
LastRows(rows) ==
  { i \in DOMAIN rows : \A j \in DOMAIN rows : rows[j].created_at <= rows[i].created_at }

get_last_sale(D) == { D.sales[i].id : i \in LastRows(D.sales) }

get_last_expense(D) == { D.expenses[i].id : i \in LastRows(D.expenses) }

\* only IN and ADJUSTMENT movements of products that exist (JOIN products)
get_last_stock_movement(D) ==
  LET eligible == { i \in DOMAIN D.stock_movements :
                      /\ D.stock_movements[i].movement_type \in {"IN", "ADJUSTMENT"}
                      /\ D.stock_movements[i].product_id \in DOMAIN D.products }
  IN { i \in eligible :
         \A j \in eligible :
           D.stock_movements[j].created_at <= D.stock_movements[i].created_at }

\* get_last_operation: the candidates in the order SALE, EXPENSE, STOCK,
\* sorted by timestamp with a stable descending sort; pick holds the row
\* each get_last_* query returned (0 when it returned none)
get_last_operation(D, pick) ==
  LET ts(kind) ==
        IF kind = "SALE"
          THEN SelectSeq(D.sales, LAMBDA r : r.id = pick.sale)[1].created_at
        ELSE IF kind = "EXPENSE"
          THEN SelectSeq(D.expenses, LAMBDA r : r.id = pick.expense)[1].created_at
        ELSE D.stock_movements[pick.stock].created_at
      present == { k \in {"SALE", "EXPENSE", "STOCK"} :
                     \/ k = "SALE" /\ pick.sale # 0
                     \/ k = "EXPENSE" /\ pick.expense # 0
                     \/ k = "STOCK" /\ pick.stock # 0 }
      rank(kind) == IF kind = "SALE" THEN 1 ELSE IF kind = "EXPENSE" THEN 2 ELSE 3
  IN IF present = {} THEN [type |-> "NONE", id |-> 0]
     ELSE LET best == CHOOSE k \in present :
                        \A o \in present :
                          \/ ts(o) < ts(k)
                          \/ ts(o) = ts(k) /\ rank(k) <= rank(o)
          IN [type |-> best,
              id |-> IF best = "SALE" THEN pick.sale
                     ELSE IF best = "EXPENSE" THEN pick.expense ELSE pick.stock]

\* the rows the three get_last_* queries may return
LastPicks(D) ==
  { [sale |-> a, expense |-> b, stock |-> c] :
      a \in (IF get_last_sale(D) = {} THEN {0} ELSE get_last_sale(D)),
      b \in (IF get_last_expense(D) = {} THEN {0} ELSE get_last_expense(D)),
      c \in (IF get_last_stock_movement(D) = {} THEN {0} ELSE get_last_stock_movement(D)) }

\* =====================================================================
\* Operation executor (agents/write_agent.py)
\* =====================================================================

\* the ADD_STOCK loop: one add_stock call, and one commit, per item; an
\* exception in a later item leaves the earlier movements in the database
RECURSIVE ExecAddStockLoop(_, _, _, _)
ExecAddStockLoop(D, items, movement_type, ts) ==
  IF items = << >> THEN [status |-> "ok", db |-> D, why |-> "none", n |-> 0]
  ELSE LET item == Head(items)
       IN IF ~Has(item, "product_id") \/ ~Has(item, "quantity")
            THEN [status |-> "KeyError", db |-> D, why |-> "field", n |-> 0]
          ELSE LET r == add_stock(D, [product_id |-> item.product_id,
                                      quantity |-> item.quantity,
                                      movement_type |-> movement_type], ts)
               IN IF r.status # "ok"
                    THEN [status |-> r.status, db |-> D, why |-> r.info.why, n |-> 0]
                  ELSE LET rest == ExecAddStockLoop(r.db, Tail(items), movement_type, ts)
                       IN [rest EXCEPT !.n = @ + 1]

AnyResolutionError(items) ==
  \E i \in DOMAIN items : Has(items[i], "resolution_error")

ExecFail(D, e, why) == [status |-> e, db |-> D, why |-> why]
ExecDone(r) == [status |-> r.status, db |-> r.db,
                why |-> IF r.status = "ok" THEN "none" ELSE r.info.why]

\* target of a CANCEL_* request: "last" (the default) or a row id
CancelTarget(entities) == IF Has(entities, "target") THEN entities.target ELSE 0

\* the try block of execute_operation; pick holds what the get_last_*
\* queries returned
ExecTry(D, operation_type, entities, ts, pick) ==
  IF operation_type = "REGISTER_SALE" THEN
    LET items == IF Has(entities, "items") THEN entities.items ELSE << >>
    IN IF items = << >> THEN ExecFail(D, "ValueError", "no_items")
       ELSE IF AnyResolutionError(items) THEN ExecFail(D, "ValueError", "resolution_error")
       ELSE ExecDone(register_sale(D, [items |-> items,
                                       status |-> IF Has(entities, "status")
                                                    THEN entities.status ELSE "PAID"], ts))
  ELSE IF operation_type = "REGISTER_EXPENSE" THEN
    IF ~Has(entities, "amount_cents") THEN ExecFail(D, "ValueError", "no_amount")
    ELSE ExecDone(register_expense(D, [amount_cents |-> entities.amount_cents], ts))
  ELSE IF operation_type = "REGISTER_PRODUCT" THEN
    ExecDone(register_product(D,
      [k \in DOMAIN entities \cap {"sku", "name", "unit_price_cents"} |-> entities[k]]))
  ELSE IF operation_type = "ADD_STOCK" THEN
    LET movement_type == IF Has(entities, "movement_type")
                           THEN entities.movement_type ELSE "IN"
        given == IF Has(entities, "items") THEN entities.items ELSE << >>
    IN IF given = << >> /\ (~Has(entities, "product_id") \/ ~Has(entities, "quantity"))
         THEN ExecFail(D, "ValueError", "no_product_or_quantity")
       ELSE LET items == IF given = << >>
                           THEN << [product_id |-> entities.product_id,
                                    quantity |-> entities.quantity] >>
                           ELSE given
            IN IF AnyResolutionError(items)
                 THEN ExecFail(D, "ValueError", "resolution_error")
               ELSE LET r == ExecAddStockLoop(D, items, movement_type, ts)
                    IN [status |-> r.status, db |-> r.db, why |-> r.why]
  ELSE IF operation_type = "CANCEL_SALE" THEN
    IF CancelTarget(entities) = 0
      THEN IF pick.sale = 0 THEN ExecFail(D, "ValueError", "no_sales")
           ELSE ExecDone(cancel_sale(D, pick.sale, ts))
      ELSE ExecDone(cancel_sale(D, CancelTarget(entities), ts))
  ELSE IF operation_type = "CANCEL_EXPENSE" THEN
    IF CancelTarget(entities) = 0
      THEN IF pick.expense = 0 THEN ExecFail(D, "ValueError", "no_expenses")
           ELSE ExecDone(cancel_expense(D, pick.expense))
      ELSE ExecDone(cancel_expense(D, CancelTarget(entities)))
  ELSE IF operation_type = "CANCEL_STOCK" THEN
    IF CancelTarget(entities) = 0
      THEN IF pick.stock = 0 THEN ExecFail(D, "ValueError", "no_movements")
           ELSE ExecDone(cancel_stock_movement(D, pick.stock, ts))
      ELSE ExecDone(cancel_stock_movement(D, CancelTarget(entities), ts))
  ELSE IF operation_type = "CANCEL_LAST_OPERATION" THEN
    LET last_op == get_last_operation(D, pick)
    IN IF last_op.type = "NONE" THEN ExecFail(D, "ValueError", "no_operations")
       ELSE IF last_op.type = "SALE" THEN ExecDone(cancel_sale(D, last_op.id, ts))
       ELSE IF last_op.type = "EXPENSE" THEN ExecDone(cancel_expense(D, last_op.id))
       ELSE ExecDone(cancel_stock_movement(D, last_op.id, ts))
  ELSE ExecFail(D, "ValueError", "unknown_operation")

\* =====================================================================
\* Entity resolver (agents/resolver.py)
\* =====================================================================
black    == << "b","l","a","c","k" >>
gold     == << "g","o","l","d" >>
classic  == << "c","l","a","s","s","i","c" >>
clasica  == << "c","l","a","s","i","c","a" >>
bracelet == << "b","r","a","c","e","l","e","t" >>
keychain == << "k","e","y","c","h","a","i","n" >>
llavero  == << "l","l","a","v","e","r","o" >>

\* the words that the matching loops skip
SkipWords ==
  { << "d","e" >>, << "g","r","a","n","o","s" >>, << "c","a","f","e" >>,
    << "c","o","n" >>, << "l","a" >>, << "e","l" >>,
    << "c","o","f","f","e","e" >>, << "b","e","a","n" >>, << "b","e","a","n","s" >> }

\* ... and the words that do not count as meaningful
GenericWords == SkipWords \cup { pulsera, pulseras, bracelet }

generate_word_variations(word) ==
  IF EndsWith(word, << "s" >>) /\ Len(word) > 2
    THEN << word, SubSeq(word, 1, Len(word) - 1) >>
  ELSE IF ~EndsWith(word, << "s" >>) THEN << word, word \o << "s" >> >>
  ELSE << word >>

\* the translations dict, in its insertion order
Translations ==
  << << black, negra >>, << negra, black >>, << gold, dorada >>, << dorada, gold >>,
     << classic, clasica >>, << clasica, classic >>,
     << << "c","l","á","s","i","c","a" >>, classic >>,
     << bracelet, pulsera >>, << pulsera, bracelet >>,
     << keychain, llavero >>, << llavero, keychain >> >>

Translated(word) ==
  IF \E k \in DOMAIN Translations : Translations[k][1] = word
    THEN << Translations[CHOOSE k \in DOMAIN Translations : Translations[k][1] = word][2] >>
    ELSE << >>

add_variation(variations, variation) ==
  IF \E k \in DOMAIN variations : variations[k] = variation
    THEN variations ELSE Append(variations, variation)

\* first loop of translate_product_terms: one word translated at a time
RECURSIVE TranslateWords(_, _, _)
TranslateWords(variations, words, i) ==
  IF i > Len(words) THEN variations
  ELSE TranslateWords(
         IF Translated(words[i]) = << >> THEN variations
         ELSE add_variation(variations,
                            Join([words EXCEPT ![i] = Translated(words[i])[1]])),
         words, i + 1)

\* second loop: every occurrence of a term replaced, word boundaries ignored
RECURSIVE TranslateTerms(_, _, _)
TranslateTerms(variations, text, k) ==
  IF k > Len(Translations) THEN variations
  ELSE TranslateTerms(
         IF Infix(Translations[k][1], Lower(text))
           THEN add_variation(variations,
                              Replace(Lower(text), Translations[k][1], Translations[k][2]))
           ELSE variations,
         text, k + 1)

translate_product_terms(text) ==
  TranslateTerms(TranslateWords(<< text >>, Split(Lower(text)), 1), text, 1)

\* number of the words, other than the skipped ones, of which some
\* singular/plural variation occurs in the product name
WordMatches(word, product_name_norm) ==
  \E k \in DOMAIN generate_word_variations(word) :
    Infix(normalize_text(generate_word_variations(word)[k]), product_name_norm)

MatchScore(words, name) ==
  Cardinality({ k \in DOMAIN words :
                  words[k] \notin SkipWords /\ WordMatches(words[k], normalize_text(name)) })

MeaningfulWords(words) ==
  Cardinality({ k \in DOMAIN words : words[k] \notin GenericWords })

\* SELECT ... FROM products WHERE is_active = 1, in rowid order
ActiveProducts(D) ==
  SelectSeq([p \in DOMAIN D.products |-> p], LAMBDA p : D.products[p].is_active = 1)

\* SELECT ... FROM products WHERE sku = ?
ProductsBySku(D, sku) == { p \in DOMAIN D.products : D.products[p].sku = sku }

\* a / b > c / d, the scores being the fractions num / den
ScoreGreater(x, y) == x.num * y.den > y.num * x.den

\* candidates after one (variation, product) pair of fuzzy_match_with_scores
FuzzyVisit(D, candidates, words, p) ==
  LET total_meaningful_words == MeaningfulWords(words)
      confidence == [num |-> MatchScore(words, D.products[p].name),
                     den |-> total_meaningful_words]
  IN IF total_meaningful_words = 0 \/ confidence.num = 0 THEN candidates
     ELSE IF \E k \in DOMAIN candidates : candidates[k].id = p
       THEN LET k == CHOOSE k \in DOMAIN candidates : candidates[k].id = p
            IN IF ScoreGreater(confidence, candidates[k].score)
                 THEN [candidates EXCEPT ![k].score = confidence]
                 ELSE candidates
     ELSE Append(candidates, [id |-> p, score |-> confidence])

RECURSIVE FuzzyProducts(_, _, _, _)
FuzzyProducts(D, candidates, words, ps) ==
  IF ps = << >> THEN candidates
  ELSE FuzzyProducts(D, FuzzyVisit(D, candidates, words, Head(ps)), words, Tail(ps))

RECURSIVE FuzzyVariations(_, _, _)
FuzzyVariations(D, candidates, variations) ==
  IF variations = << >> THEN candidates
  ELSE FuzzyVariations(D,
         FuzzyProducts(D, candidates, Split(Lower(Head(variations))), ActiveProducts(D)),
         Tail(variations))

\* candidates.sort(key = score, reverse = True): stable
RECURSIVE SortByScore(_)
SortByScore(candidates) ==
  IF candidates = << >> THEN << >>
  ELSE LET k == CHOOSE k \in DOMAIN candidates :
                  /\ \A j \in DOMAIN candidates :
                       ~ScoreGreater(candidates[j].score, candidates[k].score)
                  /\ \A j \in 1..(k - 1) :
                       ScoreGreater(candidates[k].score, candidates[j].score)
       IN << candidates[k] >>
            \o SortByScore(SubSeq(candidates, 1, k - 1)
                             \o SubSeq(candidates, k + 1, Len(candidates)))

fuzzy_match_with_scores(D, product_ref) ==
  IF ProductsBySku(D, product_ref) # {}
    THEN << [id |-> CHOOSE p \in ProductsBySku(D, product_ref) : TRUE,
             score |-> [num |-> 1, den |-> 1]] >>
    ELSE SortByScore(FuzzyVariations(D, << >>, translate_product_terms(product_ref)))

\* dict helpers: d[k] = v and {**a, **b}
Put(d, k, v) == [x \in DOMAIN d \cup {k} |-> IF x = k THEN v ELSE d[x]]
Merge(a, b) == [x \in DOMAIN a \cup DOMAIN b |-> IF x \in DOMAIN b THEN b[x] ELSE a[x]]
Without(d, k) == [x \in DOMAIN d \ {k} |-> d[x]]

\* item.get("product_ref") or item.get("sku"); the empty string for None
ProductRefOf(item) ==
  IF Has(item, "product_ref") /\ item.product_ref # << >> THEN item.product_ref
  ELSE IF Has(item, "sku") THEN item.sku
  ELSE << >>

\* str.strip()
RECURSIVE LStrip(_)
LStrip(s) == IF s # << >> /\ Head(s) = " " THEN LStrip(Tail(s)) ELSE s

RECURSIVE RStrip(_)
RStrip(s) ==
  IF s # << >> /\ s[Len(s)] = " " THEN RStrip(SubSeq(s, 1, Len(s) - 1)) ELSE s

Strip(s) == RStrip(LStrip(s))

\* the name as the LIKE conditions normalise it
SqlNorm(name) ==
  LET lowered == Lower(name)
  IN [i \in DOMAIN lowered |->
        MapChar(lowered[i], << "á", "é", "í", "ó" >>, << "a", "e", "i", "o" >>)]

\* itertools.product(*lists), in its order
RECURSIVE Combos(_)
Combos(lists) ==
  IF lists = << >> THEN << << >> >>
  ELSE LET rest == Combos(Tail(lists))
           RECURSIVE Over(_)
           Over(k) ==
             IF k > Len(Head(lists)) THEN << >>
             ELSE [j \in DOMAIN rest |-> << Head(lists)[k] >> \o rest[j]] \o Over(k + 1)
       IN Over(1)

\* the row of the LIKE query of one combination (0: no row)
LikeRow(D, word_combo) ==
  LET rows == { p \in DOMAIN D.products :
                  \A k \in DOMAIN word_combo :
                    Infix(normalize_text(word_combo[k]), SqlNorm(D.products[p].name)) }
  IN IF word_combo = << >> \/ rows = {} THEN 0
     ELSE CHOOSE p \in rows : \A q \in rows : p <= q

\* the multi-word search: every word must occur in the name
MultiWordRow(D, words) ==
  IF Len(words) <= 1 THEN 0
  ELSE LET kept == SelectSeq(words, LAMBDA w : w \notin SkipWords)
           combos == Combos([k \in DOMAIN kept |-> generate_word_variations(kept[k])])
           hits == { k \in DOMAIN combos : LikeRow(D, combos[k]) # 0 }
       IN IF hits = {} THEN 0
          ELSE LikeRow(D, combos[CHOOSE k \in hits : \A j \in hits : k <= j])

\* the ranking by the number of matching words, over the active products
RankRow(D, words) ==
  LET active == ActiveProducts(D)
      score(p) == MatchScore(words, D.products[p].name)
      best == { k \in DOMAIN active :
                  /\ \A j \in DOMAIN active : score(active[j]) <= score(active[k])
                  /\ \A j \in 1..(k - 1) : score(active[j]) < score(active[k]) }
  IN IF best = {} THEN 0
     ELSE LET best_match == active[CHOOSE k \in best : TRUE]
          IN IF /\ score(best_match) > 0
                /\ MeaningfulWords(words) > 0
                /\ score(best_match) >= MeaningfulWords(words)
               THEN best_match ELSE 0

RECURSIVE VariationsRow(_, _)
VariationsRow(D, variations) ==
  IF variations = << >> THEN 0
  ELSE LET words == Split(Lower(Head(variations)))
           row == IF MultiWordRow(D, words) # 0 THEN MultiWordRow(D, words)
                  ELSE RankRow(D, words)
       IN IF row # 0 THEN row ELSE VariationsRow(D, Tail(variations))

Resolved(D, item, p, extra) ==
  Merge(Merge(item, [product_id |-> p, resolved_sku |-> D.products[p].sku,
                     resolved_name |-> D.products[p].name]), extra)

GenericTerms == { pulsera, bracelet, llavero, keychain }

resolve_product_reference(D, item) ==
  IF Has(item, "product_id") \/ ProductRefOf(item) = << >> THEN item
  ELSE LET product_ref == ProductRefOf(item)
           row == IF ProductsBySku(D, product_ref) # {}
                    THEN CHOOSE p \in ProductsBySku(D, product_ref) : TRUE
                    ELSE VariationsRow(D, translate_product_terms(product_ref))
       IN IF row # 0 THEN Resolved(D, item, row, << >>)
          ELSE IF \E g \in GenericTerms : Infix(g, normalize_text(product_ref))
            THEN Put(item, "resolution_error", << "especifica cual producto" >>)
          ELSE Put(item, "resolution_error", << "producto no encontrado" >>)

\* llm_disambiguate_product; answer is the product id the model returned
\* (0: the call failed or the id is not a candidate)
llm_disambiguate_product(D, candidates, answer) ==
  IF \E k \in DOMAIN candidates : candidates[k].id = answer
    THEN Resolved(D, << >>, answer, [llm_used |-> TRUE])
  ELSE IF candidates # << >>
    THEN Resolved(D, << >>, candidates[1].id, [llm_used |-> FALSE])
  ELSE [resolution_error |-> << "no se pudo resolver" >>]

ScoreAtLeast90(x) == 10 * x.num >= 9 * x.den

resolve_product_reference_hybrid(D, item, answer) ==
  IF Has(item, "product_id") \/ ProductRefOf(item) = << >> THEN item
  ELSE LET Decide(candidates) ==
             IF Len(candidates) = 0 THEN resolve_product_reference(D, item)
             ELSE IF Len(candidates) = 1 /\ ScoreAtLeast90(candidates[1].score)
               THEN Resolved(D, item, candidates[1].id, << >>)
             ELSE Merge(item, llm_disambiguate_product(D, candidates, answer))
       IN Decide(fuzzy_match_with_scores(D, ProductRefOf(item)))

\* ------------------------------------------------------ variant hints
VARIANT_HINT_TOKENS ==
  << [variant |-> dorada,  tokens |-> { << "d","o","r","a","d" >>, gold }],
     [variant |-> negra,   tokens |-> { << "n","e","g","r" >>, black }],
     [variant |-> clasica, tokens |-> { << "c","l","a","s","i","c" >> }] >>

detect_variant_hints(text) ==
  { VARIANT_HINT_TOKENS[k].variant :
      k \in { j \in DOMAIN VARIANT_HINT_TOKENS :
                \E token \in VARIANT_HINT_TOKENS[j].tokens :
                  Infix(token, normalize_text(text)) } }

apply_variant_hint(item, variant_hints) ==
  IF variant_hints = {} \/ ProductRefOf(item) = << >> THEN item
  ELSE LET ref_normalized == normalize_text(ProductRefOf(item))
           has_any_variant ==
             \E k \in DOMAIN VARIANT_HINT_TOKENS :
               \/ Infix(VARIANT_HINT_TOKENS[k].variant, ref_normalized)
               \/ \E token \in VARIANT_HINT_TOKENS[k].tokens : Infix(token, ref_normalized)
           hinted == { k \in DOMAIN VARIANT_HINT_TOKENS :
                         VARIANT_HINT_TOKENS[k].variant \in variant_hints }
       IN IF has_any_variant THEN item
          ELSE Put(item, "product_ref",
                   Strip(ProductRefOf(item) \o Sp
                           \o VARIANT_HINT_TOKENS[Min(hinted)].variant))

\* the retries of enforce_variant_alignment, the hints taken in the order
\* in which the set yields them
RECURSIVE AlignRetry(_, _, _, _)
AlignRetry(D, original_item, resolved_item, variants) ==
  IF variants = << >> THEN resolved_item
  ELSE LET retry_ref == Strip(ProductRefOf(original_item) \o Sp \o Head(variants))
           Retried(retry_result) ==
             IF /\ Has(retry_result, "product_id")
                /\ Has(retry_result, "resolved_name")
                /\ Infix(Head(variants), normalize_text(retry_result.resolved_name))
               THEN retry_result
               ELSE AlignRetry(D, original_item, resolved_item, Tail(variants))
       IN Retried(resolve_product_reference(
                    D, Put(original_item, "product_ref", retry_ref)))

enforce_variant_alignment(D, original_item, resolved_item, variant_hints, order) ==
  IF variant_hints = {} THEN resolved_item
  ELSE IF /\ Has(resolved_item, "product_id")
          /\ Has(resolved_item, "resolved_name")
          /\ \E variant \in variant_hints :
               Infix(variant, normalize_text(resolved_item.resolved_name))
    THEN resolved_item
  ELSE AlignRetry(D, original_item, resolved_item,
                  SelectSeq(order, LAMBDA v : v \in variant_hints))

\* the orders in which a set of variants may be iterated
VariantOrders ==
  { << dorada, negra, clasica >>, << dorada, clasica, negra >>,
    << negra, dorada, clasica >>, << negra, clasica, dorada >>,
    << clasica, dorada, negra >>, << clasica, negra, dorada >> }

\* ------------------------------------------------- generate_sku_from_name
Upper(s) == [i \in DOMAIN s |-> MapChar(s[i], LowerCase, UpperCase)]

TypePuls == { pulsera, pulseras, bracelet, bracelet \o << "s" >> }
TypeLlav == { llavero, llavero \o << "s" >>, keychain, keychain \o << "s" >> }

SkuSkipWords ==
  { << "d","e" >>, << "d","e","l" >>, << "l","a" >>, << "l","a","s" >>, << "e","l" >>,
    << "l","o","s" >>, << "g","r","a","n","o","s" >>, << "c","a","f","e" >>,
    << "c","o","f","f","e","e" >>, << "b","e","a","n" >>, << "b","e","a","n","s" >>,
    << "c","o","n" >>, << "y" >>, << "e" >>, << "a","n","d" >> }

\* the product type: the code of the first word that names a type
RECURSIVE SkuType(_)
SkuType(words) ==
  IF words = << >> THEN << "P","R","O","D" >>
  ELSE IF Head(words) \in TypePuls THEN << "P","U","L","S" >>
  ELSE IF Head(words) \in TypeLlav THEN << "L","L","A","V" >>
  ELSE SkuType(Tail(words))

\* the descriptors: every other word that is neither filler nor one letter
RECURSIVE SkuDescriptors(_, _)
SkuDescriptors(words, typed) ==
  IF words = << >> THEN << >>
  ELSE IF Head(words) \in (TypePuls \cup TypeLlav) /\ ~typed
    THEN SkuDescriptors(Tail(words), TRUE)
  ELSE IF Head(words) \notin SkuSkipWords /\ Len(Head(words)) > 1
    THEN << Upper(Head(words)) >> \o SkuDescriptors(Tail(words), typed)
  ELSE SkuDescriptors(Tail(words), typed)

Digits == << "0","1","2","3","4","5","6","7","8","9" >>

RECURSIVE Decimal(_)
Decimal(n) ==
  IF n < 10 THEN << Digits[n + 1] >>
  ELSE Decimal(n \div 10) \o << Digits[(n % 10) + 1] >>

RECURSIVE SkuUnique(_, _, _)
SkuUnique(D, base_sku, counter) ==
  IF ProductsBySku(D, base_sku \o << "-" >> \o Decimal(counter)) = {}
    THEN base_sku \o << "-" >> \o Decimal(counter)
    ELSE SkuUnique(D, base_sku, counter + 1)

generate_sku_from_name(D, name) ==
  LET words == Split(normalize_text(name))
      descriptors == SkuDescriptors(words, FALSE)
      desc_parts == [k \in 1..Min({2, Len(descriptors)}) |->
                       SubSeq(descriptors[k], 1, Min({10, Len(descriptors[k])}))]
      desc_part == IF Len(desc_parts) = 2
                     THEN desc_parts[1] \o << "-" >> \o desc_parts[2]
                     ELSE desc_parts[1]
      base_sku == << "B","C","-" >> \o SkuType(words) \o << "-" >>
                    \o (IF descriptors # << >> THEN desc_part ELSE << "S","T","D" >>)
  IN IF ProductsBySku(D, base_sku) = {} THEN base_sku ELSE SkuUnique(D, base_sku, 2)

\* ------------------------------------------------- extract_from_context
Whitespace == { " ", "\n", "\t" }

\* length of the longest run of characters of cs (not of cs, when inside
\* is FALSE) that starts at position from
RECURSIVE Run(_, _, _, _)
Run(s, from, cs, inside) ==
  IF from > Len(s) \/ ((s[from] \in cs) # inside) THEN 0
  ELSE 1 + Run(s, from + 1, cs, inside)

\* \s+([^stops]+) matched right after position e: the group, or << >>
CaptureAfter(text, e, stops) ==
  LET w == Run(text, e + 1, Whitespace, TRUE)
      start == e + w + 1
  IN IF w = 0 THEN << >>
     ELSE IF start <= Len(text) /\ text[start] \notin stops
       THEN SubSeq(text, start, start + Run(text, start, stops, FALSE) - 1)
     ELSE IF w >= 2 /\ text[e + w] \notin stops THEN << text[e + w] >>
     ELSE << >>

\* the optional group, its alternatives in the order the engine tries them
RECURSIVE CaptureOptional(_, _, _, _)
CaptureOptional(text, e, stops, alternatives) ==
  IF alternatives = << >> THEN CaptureAfter(text, e, stops)
  ELSE LET w == Run(text, e + 1, Whitespace, TRUE)
           from == e + w + 1
           to == e + w + Len(Head(alternatives))
           inner == IF w > 0 /\ to <= Len(text)
                       /\ Lower(SubSeq(text, from, to)) = Head(alternatives)
                      THEN CaptureAfter(text, to, stops) ELSE << >>
       IN IF inner # << >> THEN inner
          ELSE CaptureOptional(text, e, stops, Tail(alternatives))

\* re.search(pattern, text, re.IGNORECASE).group(1), or << >>
Search(pattern, text) ==
  LET k == pattern.keyword
      at(i) == IF Lower(SubSeq(text, i, i + Len(k) - 1)) = k
                 THEN CaptureOptional(text, i + Len(k) - 1, pattern.stops, pattern.optional)
                 ELSE << >>
      hits == { i \in 1..(Len(text) - Len(k) + 1) : at(i) # << >> }
  IN IF hits = {} THEN << >> ELSE at(Min(hits))

NamePatterns ==
  << [keyword |-> << "l","l","a","m","o" >>, optional |-> << >>,
      stops |-> { ".", "\n" }],
     [keyword |-> << "r","e","g","i","s","t","r","a","r" >>,
      optional |-> << << "u","n"," ","n","u","e","v","o"," ","t","i","p","o"," ","d","e" >> >>,
      stops |-> { ".", "\n", "," }],
     [keyword |-> << "c","r","e","a","r" >>, optional |-> << >>,
      stops |-> { ".", "\n", "," }],
     [keyword |-> << "p","r","o","d","u","c","t","o" >>, optional |-> << >>,
      stops |-> { ".", "\n", "," }],
     [keyword |-> << "s","o","n" >>,
      optional |-> << << "u","n","a","s" >>, << "u","n","a" >> >>,
      stops |-> { ".", "\n", "," }] >>

CleanName(name) ==
  Strip(Replace(Replace(Replace(Replace(Strip(name),
          << "n","u","e","v","o"," ","t","i","p","o"," ","d","e" >>, << >>),
          << "u","n","a","s" >>, << >>),
          << "l","a","s" >>, << >>),
          << "u","n","o","s" >>, << >>))

RECURSIVE ExtractName(_, _)
ExtractName(user_input, patterns) ==
  IF patterns = << >> THEN << >>
  ELSE LET match == Search(Head(patterns), user_input)
       IN IF match # << >> /\ Len(CleanName(match)) > 3
            THEN CleanName(match)
            ELSE ExtractName(user_input, Tail(patterns))

\* a missing field: its name and, for a field of an item, the item's index
Field(name) == [name |-> name, index |-> -1]
ItemField(i, name) == [name |-> name, index |-> i]

\* the value found for a field in the text of the request, or << >>
extract_from_context(user_input, field) ==
  IF field = Field("name") THEN ExtractName(user_input, NamePatterns) ELSE << >>

\* ------------------------------------------------ validate_required_fields
\* the missing fields of the items of a sale, item by item
RECURSIVE MissingOfItems(_, _)
MissingOfItems(items, k) ==
  IF k > Len(items) THEN << >>
  ELSE (IF ~Has(items[k], "product_id") /\ Has(items[k], "resolution_error")
          THEN << ItemField(k - 1, "product_id (not found)") >> ELSE << >>)
       \o (IF ~Has(items[k], "quantity")
             THEN << ItemField(k - 1, "quantity") >> ELSE << >>)
       \o MissingOfItems(items, k + 1)

MissingOfSale(entities) ==
  IF ~Has(entities, "items") \/ entities.items = << >> THEN << Field("items") >>
  ELSE MissingOfItems(entities.items, 1)

\* the list of missing fields, and the entities with the defaults that
\* the validation fills in
validate_required_fields(D, operation_type, entities) ==
  IF operation_type = "REGISTER_SALE"
    THEN [missing |-> MissingOfSale(entities), entities |-> entities]
  ELSE IF operation_type = "REGISTER_EXPENSE"
    THEN [missing |-> (IF Has(entities, "amount_cents") THEN << >> ELSE << Field("amount") >>)
                        \o (IF Has(entities, "description") THEN << >>
                            ELSE << Field("description") >>),
          entities |-> entities]
  ELSE IF operation_type = "REGISTER_PRODUCT"
    THEN LET with_sku == IF ~Has(entities, "sku") /\ Has(entities, "name")
                           THEN Put(entities, "sku", generate_sku_from_name(D, entities.name))
                           ELSE entities
         IN [missing |-> (IF Has(entities, "name") THEN << >> ELSE << Field("name") >>)
                           \o (IF Has(entities, "unit_price_cents") THEN << >>
                               ELSE << Field("unit_price_cents") >>),
             entities |-> IF Has(with_sku, "unit_cost_cents") THEN with_sku
                          ELSE Put(with_sku, "unit_cost_cents", 0)]
  ELSE IF operation_type = "ADD_STOCK"
    THEN LET has_single == Has(entities, "product_id") /\ Has(entities, "quantity")
             has_items == Has(entities, "items") /\ Len(entities.items) > 0
         IN [missing |-> IF has_single \/ has_items THEN << >>
                         ELSE IF ~Has(entities, "items")
                           THEN << Field("product_id"), Field("quantity") >>
                         ELSE << Field("items") >>,
             entities |-> entities]
  ELSE IF operation_type = "DEACTIVATE_PRODUCT"
    THEN [missing |-> IF Has(entities, "product_id") THEN << >>
                      ELSE << Field("product_id") >>,
          entities |-> entities]
  ELSE [missing |-> << >>, entities |-> entities]

\* ------------------------------------------------------- resolve_entities
\* one item of the request: hint, resolution, alignment, price in cents
ResolveItem(D, item, variant_hints, answer, order) ==
  LET PriceInCents(resolved_item) ==
        IF Has(resolved_item, "unit_price")
          THEN Put(Without(resolved_item, "unit_price"),
                   "unit_price_cents", resolved_item.unit_price * 100)
          ELSE resolved_item
      Align(item_with_hint) ==
        enforce_variant_alignment(D, item_with_hint,
          resolve_product_reference_hybrid(D, item_with_hint, answer),
          variant_hints, order)
  IN PriceInCents(Align(apply_variant_hint(item, variant_hints)))

\* the fields recovered from the text of the request
RECURSIVE Recover(_, _, _)
Recover(user_input, missing, entities) ==
  IF missing = << >> THEN [missing |-> << >>, entities |-> entities]
  ELSE LET value == extract_from_context(user_input, Head(missing))
           rest == Recover(user_input, Tail(missing),
                           IF value # << >> THEN Put(entities, Head(missing).name, value)
                           ELSE entities)
       IN IF value # << >> THEN rest
          ELSE [rest EXCEPT !.missing = << Head(missing) >> \o @]

Message(agent, content) == [agent |-> agent, content |-> content]

\* answers[k] is what the model answers when asked about item k (0: the
\* product reference at the top level); lookup is "raise" when a query fails
resolve_entities(D, state, answers, order, lookup) ==
  IF lookup = "raise"
    THEN [error |-> << "Resolver error" >>,
          messages |-> << Message("Resolver", << "Resolver error" >>) >>]
  ELSE
  LET entities == state.normalized_entities
      user_input == state.user_input
      Items(variant_hints) ==
        IF Has(entities, "items")
          THEN [items |-> [k \in DOMAIN entities.items |->
                             ResolveItem(D, entities.items[k], variant_hints,
                                         answers[k], order)]]
          ELSE << >>
      TopLevel(resolved, top) ==
        IF ~(Has(entities, "product_ref") \/ Has(entities, "sku")) THEN resolved
        ELSE IF Has(top, "product_id")
          THEN Merge(resolved, [product_id |-> top.product_id,
                                resolved_sku |-> top.resolved_sku,
                                resolved_name |-> top.resolved_name])
        ELSE IF Has(top, "resolution_error")
          THEN Put(resolved, "resolution_error", top.resolution_error)
        ELSE resolved
      Amount(resolved) ==
        IF Has(entities, "amount")
          THEN Put(resolved, "amount_cents", entities.amount * 100) ELSE resolved
      Copied(resolved) == Merge(entities, resolved)
      PriceCents(resolved) ==
        IF Has(resolved, "unit_price") /\ ~Has(resolved, "unit_price_cents")
          THEN Put(resolved, "unit_price_cents", resolved.unit_price * 100)
          ELSE resolved
      AmountCents(resolved) ==
        IF Has(resolved, "amount") /\ ~Has(resolved, "amount_cents")
          THEN Put(resolved, "amount_cents", resolved.amount * 100) ELSE resolved
      Return(resolved, missing_fields) ==
        [normalized_entities |-> resolved,
         missing_fields |-> missing_fields,
         messages |-> << Message("Resolver", << "Resolved entities" >>) >>]
      Recovered(found) == Return(PriceCents(found.entities), found.missing)
      Validated(checked) ==
        IF checked.missing # << >> /\ user_input # << >>
          THEN Recovered(Recover(user_input, checked.missing, checked.entities))
          ELSE Return(checked.entities, checked.missing)
  IN Validated(
       validate_required_fields(D, state.operation_type,
         AmountCents(PriceCents(Copied(Amount(
           TopLevel(Items(detect_variant_hints(user_input)),
                    resolve_product_reference_hybrid(
                      D, [product_ref |-> ProductRefOf(entities)], answers[0]))))))))

\* (mutation) only an error keeps the request from the executor
route_after_resolver_IgnoreMissing(state) ==
  IF state.error # << >> THEN "final_answer" ELSE "write_agent"

route_after_resolver(state) ==
  IF state.error # << >> \/ state.missing_fields # << >>
    THEN "final_answer" ELSE "write_agent"

\* =====================================================================
\* Router (agents/router.py), analytics (agents/read_agent.py) and the
\* graph (graph.py)
\* =====================================================================
ConfidenceThreshold == 60    \* percent

\* None, for the fields of the state that hold a text
None == << >>
NoResult == [status |-> "None"]

\* run_agent: the state a request starts with
initial_state(user_input) ==
  [ messages |-> << >>, user_input |-> user_input, intent |-> "None",
    operation_type |-> "None", confidence |-> -1, missing_fields |-> << >>,
    normalized_entities |-> << >>, sql_result |-> None,
    operation_result |-> NoResult, final_answer |-> None, error |-> None ]

\* a node's return value merged into the state: messages are appended,
\* every other key is overwritten
Update(state, out) ==
  [k \in DOMAIN state |->
     IF k \notin DOMAIN out THEN state[k]
     ELSE IF k = "messages" THEN state[k] \o out[k]
     ELSE out[k]]

\* (mutation) a confidence equal to the threshold is not trusted either
LowConfidence_Inclusive(confidence) == confidence <= ConfidenceThreshold

LowConfidence(confidence) == confidence < ConfidenceThreshold

\* route_intent; result is what the classifier chain returned, or "raise"
route_intent(state, result) ==
  IF result.outcome = "raise"
    THEN [intent |-> "AMBIGUOUS", confidence |-> 0,
          error |-> << "Router failed" >>,
          missing_fields |-> << >>, normalized_entities |-> << >>]
  ELSE IF LowConfidence(result.confidence)
    THEN [intent |-> "AMBIGUOUS", operation_type |-> result.operation_type,
          confidence |-> result.confidence, missing_fields |-> << >>,
          normalized_entities |-> result.normalized_entities,
          final_answer |-> << "Tengo dudas sobre lo que necesitas" >>,
          messages |-> << Message("Router", << "Confianza baja" >>) >>]
  ELSE [intent |-> result.intent, operation_type |-> result.operation_type,
        confidence |-> result.confidence, missing_fields |-> result.missing_fields,
        normalized_entities |-> result.normalized_entities,
        messages |-> << Message("Router", << "Intent classified" >>) >>]

route_to_next_node(state) ==
  IF state.error # None THEN "final_answer"
  ELSE IF state.intent = "GREETING" THEN "final_answer"
  ELSE IF state.intent = "AMBIGUOUS" \/ state.missing_fields # << >> THEN "final_answer"
  ELSE IF state.intent = "READ_ANALYTICS" THEN "read_agent"
  ELSE IF state.intent = "WRITE_OPERATION" THEN "resolver"
  ELSE IF state.intent = "MIXED" THEN "resolver"
  ELSE "final_answer"

\* ------------------------------------------------------ execute_operation
\* the text of the request for the missing fields
MissingText(missing_fields) ==
  << IF Len(missing_fields) = 1 THEN "Me falta un dato" ELSE "Me faltan algunos datos" >>
    \o [k \in DOMAIN missing_fields |-> missing_fields[k].name]

OperationSummary(operation_type) == << "summary", operation_type >>

\* outcome is what ExecTry made of the operation
execute_operation(state, outcome) ==
  IF state.missing_fields # << >>
    THEN [operation_result |-> NoResult,
          error |-> MissingText(state.missing_fields),
          final_answer |-> MissingText(state.missing_fields),
          messages |-> << Message("Write Agent", << "Missing fields" >>) >>]
  ELSE IF outcome.status = "ok"
    THEN [operation_result |-> [status |-> "ok"],
          messages |-> << Message("Write Agent", OperationSummary(state.operation_type)) >>,
          final_answer |-> IF state.intent = "WRITE_OPERATION"
                             THEN OperationSummary(state.operation_type) ELSE None]
  ELSE [operation_result |-> NoResult,
        error |-> << "Operacion fallida", outcome.why >>,
        final_answer |-> << "Operacion fallida", outcome.why >>,
        messages |-> << Message("Write Agent", << "Operacion fallida", outcome.why >>) >>]

\* (mutation) a failed operation sends the request back to the resolver
route_after_write_Retry(state) ==
  IF state.error # None THEN "resolver"
  ELSE IF state.intent = "MIXED" THEN "read_agent"
  ELSE "final_answer"

route_after_write(state) ==
  IF state.error # None THEN "final_answer"
  ELSE IF state.intent = "MIXED" THEN "read_agent"
  ELSE "final_answer"

\* ------------------------------------------------------------ execute_read
QueryTypes == { "STOCK_QUERY", "REVENUE_QUERY", "PROFIT_QUERY" }

\* what a query of the given type reads from the database
ReadRows(D, query_type) ==
  IF query_type = "STOCK_QUERY"
    THEN [query |-> query_type,
          stock |-> [p \in StockViewRows(D) |-> stock_current(D, p)], cents |-> 0]
  ELSE IF query_type = "REVENUE_QUERY"
    THEN [query |-> query_type, stock |-> << >>, cents |-> revenue_paid(D)]
  ELSE [query |-> query_type, stock |-> << >>, cents |-> profit_summary(D)]

\* classification is the query type the classifier chain returned,
\* "GENERAL_QUERY" for any other answer, or "raise"
execute_read(state, classification) ==
  IF classification = "raise"
    THEN [sql_result |-> << "Disculpa, tuve un problema" >>,
          error |-> << "Read agent error" >>,
          messages |-> << Message("Read Agent", << "Error", "Read agent error" >>) >>]
  ELSE IF classification \notin QueryTypes
    THEN [sql_result |-> << "No entendi tu pregunta" >>,
          messages |-> << Message("Read Agent", << "Clarification needed" >>) >>]
  ELSE [sql_result |-> << "rows", classification >>,
        messages |-> << Message("Read Agent", << "rows", classification >>) >>]

\* ------------------------------------------------------ format_final_answer
RECURSIVE WriteMessages(_)
WriteMessages(messages) ==
  IF messages = << >> THEN << >>
  ELSE (IF Head(messages).agent = "Write Agent" THEN Head(messages).content ELSE << >>)
       \o WriteMessages(Tail(messages))

format_final_answer(state) ==
  IF state.final_answer # None THEN state.final_answer
  ELSE IF state.error # None THEN << "Error" >> \o state.error
  ELSE IF state.intent = "GREETING" THEN << "Hola" >>
  ELSE IF state.missing_fields # << >> THEN MissingText(state.missing_fields)
  ELSE IF state.sql_result # None
    THEN IF state.operation_result # NoResult
           THEN WriteMessages(state.messages) \o state.sql_result
           ELSE state.sql_result
  ELSE IF state.intent = "AMBIGUOUS" THEN << "No estoy seguro de lo que necesitas" >>
  ELSE << "I processed your request" >>

\* ------------------------------------------------------------ initial
NoOp == [op |-> "none", status |-> "ok", why |-> "none"]
NoSale == [sale_id |-> 0]

\* the populated_db fixture: the catalog and empty tables
LedgerEmpty ==
  [ products |-> Catalog, stock_movements |-> << >>, sales |-> << >>,
    sale_items |-> << >>, expenses |-> << >>, sale_seq |-> 0, expense_seq |-> 0 ]

\* ... after add_stock of 2 units of product 1 and 1 unit of product 2
LedgerStocked ==
  add_stock(add_stock(LedgerEmpty, [product_id |-> 1, quantity |-> 2], 0).db,
            [product_id |-> 2, quantity |-> 1], 0).db

InitMovements == LedgerStocked.stock_movements

\* ... and register_expense of 700 cents
LedgerWithExpense == register_expense(LedgerStocked, [amount_cents |-> 700], 0).db

Load(D) ==
  /\ products = D.products
  /\ stock_movements = D.stock_movements
  /\ sales = D.sales
  /\ sale_items = D.sale_items
  /\ expenses = D.expenses
  /\ sale_seq = D.sale_seq
  /\ expense_seq = D.expense_seq

InitLedger ==
  /\ Load(LedgerWithExpense)
  /\ now = 0

\* no reference given to the resolver
NoResolution == [product_ref |-> << >>]

\* no chat, no sale in progress, the default database path in the WhatsApp
\* server and in the backend, no database file
NoHistory == << >>
NoTxn == << >>
DefaultPath == << "beansco.db" >>
Processes == { "whatsapp", "backend" }
NoDatabases == << >>
NoServer ==
  /\ conversation_history = NoHistory
  /\ txn = NoTxn
  /\ DB_PATH = [p \in Processes |-> DefaultPath]
  /\ databases = NoDatabases

\* no request in the graph
NoRows == [query |-> "None", stock |-> << >>, cents |-> 0]
Unclassified == [outcome |-> "None"]

Init ==
  /\ InitLedger
  /\ last = NoOp
  /\ pre_sale = NoSale
  /\ pc = "END"
  /\ st = initial_state(<< >>)
  /\ path = << >>
  /\ db0 = LedgerWithExpense
  /\ classified = Unclassified
  /\ seen = NoRows
  /\ registered = << >>
  /\ resolution = NoResolution
  /\ NoServer

\* ------------------------------------------------------ request inputs
QtyInputs == 1..MaxQty

\* a resolved sale item: product and quantity, the unit price optional
PlainItems == { [product_id |-> p, quantity |-> q] : p \in ProductIds, q \in QtyInputs }
PricedItems == { [product_id |-> 1, quantity |-> 1, unit_price_cents |-> 100] }

RECURSIVE SeqsOfLen(_, _)
SeqsOfLen(S, n) ==
  IF n = 0 THEN { << >> }
  ELSE { Append(s, x) : s \in SeqsOfLen(S, n - 1), x \in S }

UnitItems == { x \in PlainItems : x.quantity = 1 }

\* item lists: any first item, then items of one unit each
SaleItemLists ==
  { << x >> : x \in PricedItems }
    \cup { << x >> \o rest : x \in PlainItems,
                             rest \in UNION { SeqsOfLen(UnitItems, n) : n \in 0..(MaxItems - 1) } }

SaleInputs ==
  { [items |-> its, status |-> status] : its \in SaleItemLists, status \in {"PAID", "PENDING"} }

\* room left for k more stock movements
Room(k) == Len(stock_movements) + k <= Len(InitMovements) + MaxMovements

\* the views of all products, as a request would read them
StockOfAll(D) == [p \in DOMAIN D.products |-> stock_current(D, p)]

\* ------------------------------------------------------------- actions
\* the profit_usd an operation returns, in cents (none when it raised)
Reported(r) == IF r.status = "ok" THEN << r.info.profit >> ELSE << >>

Did(op, r) == last' = [op |-> op, status |-> r.status,
                       why |-> IF r.status = "ok" THEN "none" ELSE r.info.why]

AddStockInputs ==
  { [product_id |-> p, quantity |-> q, movement_type |-> "IN"] :
      p \in ProductIds, q \in QtyInputs }
    \cup { [product_id |-> 1, quantity |-> 1, movement_type |-> "ADJUSTMENT"] }

AddStock ==
  \E data \in AddStockInputs :
    /\ Room(1)
    /\ LET r == add_stock(DB, data, now)
       IN Commit(r.db) /\ Did("add_stock", r)
    /\ pre_sale' = NoSale
    /\ UNCHANGED << now, pc, st, path, db0, classified, seen, registered, resolution, server >>

RemoveStock ==
  \E p \in ProductIds, q \in QtyInputs :
    /\ Room(1)
    /\ LET data == [product_id |-> p, quantity |-> q]
           r == remove_stock(DB, data, now)
       IN Commit(r.db) /\ Did("remove_stock", r)
    /\ pre_sale' = NoSale
    /\ UNCHANGED << now, pc, st, path, db0, classified, seen, registered, resolution, server >>

RegisterSale ==
  \E data \in SaleInputs :
    /\ sale_seq < MaxSales
    /\ data.status = "PAID" => Room(Len(data.items))
    /\ LET r == register_sale(DB, data, now)
           short == { i \in DOMAIN data.items :
                        SaleAvailable(DB, data.items[i].product_id)
                          < data.items[i].quantity }
       IN /\ Commit(r.db)
          /\ last' = [op |-> "register_sale", status |-> r.status,
                      why |-> IF r.status = "ok" THEN "none" ELSE r.info.why,
                      sale_status |-> data.status,
                      data |-> data,
                      reported |-> Reported(r),
                      items |-> Len(data.items),
                      short |-> Cardinality(short)]
          /\ pre_sale' = IF r.status = "ok"
                           THEN [sale_id |-> r.info.sale_id,
                                 status |-> data.status,
                                 items |-> Len(data.items),
                                 stock |-> StockOfAll(DB),
                                 revenue |-> revenue_paid(DB),
                                 profit |-> profit_summary(DB)]
                           ELSE NoSale
    /\ UNCHANGED << now, pc, st, path, db0, classified, seen, registered, resolution, server >>

CancelSale ==
  \E id \in 1..(sale_seq + 1) :
    /\ LET r == cancel_sale(DB, id, now)
       IN /\ Commit(r.db)
          /\ last' = [op |-> "cancel_sale", status |-> r.status,
                      why |-> IF r.status = "ok" THEN "none" ELSE r.info.why,
                      sale_id |-> id,
                      reported |-> Reported(r),
                      round_trip |-> (r.status = "ok" /\ pre_sale.sale_id = id)]
          /\ pre_sale' = IF r.status = "ok" /\ pre_sale.sale_id = id
                           THEN pre_sale ELSE NoSale
    /\ UNCHANGED << now, pc, st, path, db0, classified, seen, registered, resolution, server >>

RegisterExpense ==
  \E a \in {700} :
    /\ expense_seq < MaxExpenses
    /\ LET data == [amount_cents |-> a]
           r == register_expense(DB, data, now)
       IN /\ Commit(r.db)
          /\ last' = [op |-> "register_expense", status |-> r.status,
                      why |-> IF r.status = "ok" THEN "none" ELSE r.info.why,
                      expense_id |-> IF r.status = "ok" THEN r.info.expense_id ELSE 0,
                      before |-> profit_summary(DB),
                      reported |-> Reported(r)]
    /\ pre_sale' = NoSale
    /\ UNCHANGED << now, pc, st, path, db0, classified, seen, registered, resolution, server >>

CancelExpense ==
  \E id \in 1..(expense_seq + 1) :
    /\ LET r == cancel_expense(DB, id)
           round_trip == /\ r.status = "ok"
                         /\ last.op = "register_expense"
                         /\ last.status = "ok"
                         /\ last.expense_id = id
       IN /\ Commit(r.db)
          /\ last' = [op |-> "cancel_expense", status |-> r.status,
                      why |-> IF r.status = "ok" THEN "none" ELSE r.info.why,
                      expense_id |-> id,
                      round_trip |-> round_trip,
                      before |-> IF round_trip THEN last.before ELSE profit_summary(DB),
                      reported |-> Reported(r)]
    /\ pre_sale' = NoSale
    /\ UNCHANGED << now, pc, st, path, db0, classified, seen, registered, resolution, server >>

CancelStockMovement ==
  \E id \in 1..(Len(stock_movements) + 1) :
    /\ Room(1)
    /\ LET r == cancel_stock_movement(DB, id, now)
       IN /\ Commit(r.db)
          /\ last' = [op |-> "cancel_stock_movement", status |-> r.status,
                      why |-> IF r.status = "ok" THEN "none" ELSE r.info.why,
                      movement_id |-> id]
    /\ pre_sale' = NoSale
    /\ UNCHANGED << now, pc, st, path, db0, classified, seen, registered, resolution, server >>

DeactivateProduct ==
  \E p \in ProductIds :
    /\ LET r == deactivate_product(DB, p)
       IN Commit(r.db) /\ Did("deactivate_product", r)
    /\ pre_sale' = NoSale
    /\ UNCHANGED << now, pc, st, path, db0, classified, seen, registered, resolution, server >>

Next ==
  \/ AddStock \/ RemoveStock \/ RegisterSale \/ CancelSale
  \/ CancelStockMovement \/ DeactivateProduct

Spec == Init /\ [][Next]_vars

\* =====================================================================
\* Sales and expenses: the profit
\* =====================================================================
\* stock to sell and no expense yet
InitProfit ==
  /\ Load(LedgerStocked)
  /\ now = 0
  /\ last = NoOp
  /\ pre_sale = NoSale
  /\ pc = "END"
  /\ st = initial_state(<< >>)
  /\ path = << >>
  /\ db0 = LedgerStocked
  /\ classified = Unclassified
  /\ seen = NoRows
  /\ registered = << >>
  /\ resolution = NoResolution
  /\ NoServer

NextProfit == RegisterSale \/ CancelSale \/ RegisterExpense \/ CancelExpense

SpecProfit == InitProfit /\ [][NextProfit]_vars

\* =====================================================================
\* Registrations followed by CANCEL_LAST_OPERATION
\* =====================================================================
\* an empty ledger with the catalog; CURRENT_TIMESTAMP counts whole seconds,
\* so operations registered within one second carry the same created_at
InitLast ==
  /\ Load(LedgerEmpty)
  /\ now = 0
  /\ last = NoOp
  /\ pre_sale = NoSale
  /\ pc = "END"
  /\ st = initial_state(<< >>)
  /\ path = << >>
  /\ db0 = LedgerEmpty
  /\ classified = Unclassified
  /\ seen = NoRows
  /\ registered = << >>
  /\ resolution = NoResolution
  /\ NoServer

Registering == last.op # "cancel_last" /\ Len(registered) < MaxOps

Registered(type, id, r) ==
  registered' = IF r.status = "ok"
                  THEN Append(registered, [type |-> type, id |-> id])
                  ELSE registered

\* a second passes
Tick ==
  /\ Registering
  /\ now < MaxClock
  /\ now' = now + 1
  /\ UNCHANGED << ledger, last, pre_sale, pc, st, path, db0, classified, seen, registered, resolution, server >>

LastRegisterSale ==
  \E status \in { "PAID", "PENDING" } :
    /\ Registering
    /\ LET r == register_sale(DB, [items |-> << [product_id |-> 1, quantity |-> 1] >>,
                                   status |-> status], now)
       IN /\ Commit(r.db)
          /\ Did("register_sale", r)
          /\ Registered("SALE", DB.sale_seq + 1, r)
    /\ UNCHANGED << now, pre_sale, pc, st, path, db0, classified, seen, resolution, server >>

LastRegisterExpense ==
  /\ Registering
  /\ LET r == register_expense(DB, [amount_cents |-> 700], now)
     IN /\ Commit(r.db)
        /\ Did("register_expense", r)
        /\ Registered("EXPENSE", DB.expense_seq + 1, r)
  /\ UNCHANGED << now, pre_sale, pc, st, path, db0, classified, seen, resolution, server >>

LastAddStock ==
  \E p \in ProductIds :
    /\ Registering
    /\ LET r == add_stock(DB, [product_id |-> p, quantity |-> 1], now)
       IN /\ Commit(r.db)
          /\ Did("add_stock", r)
          /\ Registered("STOCK", Len(stock_movements) + 1, r)
    /\ UNCHANGED << now, pre_sale, pc, st, path, db0, classified, seen, resolution, server >>

\* the executor runs CANCEL_LAST_OPERATION
CancelLastOperation ==
  /\ last.op # "cancel_last"
  /\ \E pick \in LastPicks(DB) :
       LET Cancelled(outcome) ==
             /\ Commit(outcome.db)
             /\ last' = [op |-> "cancel_last", status |-> outcome.status,
                         why |-> outcome.why]
       IN Cancelled(ExecTry(DB, "CANCEL_LAST_OPERATION", << >>, now, pick))
  /\ UNCHANGED << now, pre_sale, pc, st, path, db0, classified, seen, registered, resolution, server >>

NextLast ==
  \/ Tick \/ LastRegisterSale \/ LastRegisterExpense \/ LastAddStock
  \/ CancelLastOperation

SpecLast == InitLast /\ [][NextLast]_vars

\* =====================================================================
\* Product references given to the resolver
\* =====================================================================
de    == << "d","e" >>
la    == << "l","a" >>
cafe  == << "c","a","f","e" >>

\* references made of generic words only: a product-type word, alone or
\* with stop-words
GenericReferences ==
  { pulsera, pulseras, bracelet,
    la \o Sp \o pulsera, pulsera \o Sp \o de \o Sp \o cafe,
    << "c","o","f","f","e","e" >> \o Sp \o bracelet }

\* references with a word of their own, SKUs, and names that match nothing
SpecificReferences ==
  { SkuBlack, SkuGold, negra, dorada, gold,
    pulsera \o Sp \o negra, pulsera \o Sp \o dorada,
    pulseras \o Sp \o negra \o << "s" >>, black \o Sp \o bracelet,
    negra \o Sp \o dorada, pulsera \o Sp \o clasica,
    anillo, llavero, pulsera \o Sp \o anillo, NameStem \o << "N","e","g","r","a" >> }

\* forms of the gold variant: plural, capitals, an accent, the English word,
\* alone and with the word of the product type
GoldReferences ==
  { dorada, dorada \o << "s" >>, Upper(dorada), << "d","o","r","á","d","a" >>,
    pulsera \o Sp \o dorada, pulseras \o Sp \o dorada \o << "s" >>,
    gold, Upper(gold), gold \o Sp \o bracelet, gold \o Sp \o bracelet \o << "s" >> }

References == GenericReferences \cup SpecificReferences \cup GoldReferences

\* the ids the model may return: none (the call failed), a product, or an
\* id of no product
ModelAnswers == { 0 } \cup ProductIds \cup { Len(Catalog) + 1 }

InitResolve ==
  /\ Load(LedgerWithExpense)
  /\ now = 0
  /\ last = NoOp
  /\ pre_sale = NoSale
  /\ pc = "END"
  /\ st = initial_state(<< >>)
  /\ path = << >>
  /\ db0 = LedgerWithExpense
  /\ classified = Unclassified
  /\ seen = NoRows
  /\ registered = << >>
  /\ resolution = NoResolution
  /\ NoServer

\* the three functions applied to one reference
ResolveReference ==
  /\ resolution = NoResolution
  /\ \E product_ref \in References, answer \in ModelAnswers :
       resolution' =
         [product_ref |-> product_ref,
          answer      |-> answer,
          candidates  |-> fuzzy_match_with_scores(DB, product_ref),
          plain       |-> resolve_product_reference(
                            DB, [product_ref |-> product_ref, quantity |-> 1]),
          hybrid      |-> resolve_product_reference_hybrid(
                            DB, [product_ref |-> product_ref, quantity |-> 1], answer)]
  /\ UNCHANGED << ledger, now, last, pre_sale, pc, st, path, db0, classified, seen,
                  registered, server >>

\* a product is deactivated before the next reference is resolved
ResolveDeactivate ==
  /\ \E p \in ProductIds : Commit(deactivate_product(DB, p).db)
  /\ resolution' = NoResolution
  /\ UNCHANGED << now, last, pre_sale, pc, st, path, db0, classified, seen, registered, server >>

NextResolve == ResolveReference \/ ResolveDeactivate

SpecResolve == InitResolve /\ [][NextResolve]_vars

\* =====================================================================
\* One request through the graph
\* =====================================================================
\* the texts of the requests
Vendi == << "v","e","n","d","i" >>
TextSale     == Vendi \o Sp \o pulseras
TextHinted   == Vendi \o Sp \o << "2" >> \o Sp \o negra \o << "s" >>
TextRegister == << "q","u","i","e","r","o"," ","r","e","g","i","s","t","r","a","r"," " >> \o aros
TextPlain    == << "h","o","l","a" >>
Envios       == << "e","n","v","i","o","s" >>

\* ledgers a request may find: stock and an expense; the same after a PAID
\* sale of one unit of product 1; the same with product 2 deactivated
LedgerWithSale ==
  register_sale(LedgerWithExpense,
                [items |-> << [product_id |-> 1, quantity |-> 1] >>, status |-> "PAID"], 1).db

LedgerDeactivated == deactivate_product(LedgerWithExpense, 2).db

RequestLedgers == { LedgerWithExpense, LedgerWithSale, LedgerDeactivated }

\* items as the classifier extracts them
RefItems ==
  { [product_ref |-> ref, quantity |-> q] :
      ref \in { SkuBlack, SkuGold, pulsera \o Sp \o negra, pulsera, anillo },
      q \in QtyInputs }

OddItems ==
  { [product_ref |-> SkuBlack],                                    \* no quantity
    [quantity |-> 1],                                              \* no product
    [product_ref |-> SkuGold, quantity |-> 0],
    [product_ref |-> SkuGold, quantity |-> 1, unit_price |-> 1] }  \* price in USD

SecondItems ==
  { [product_ref |-> SkuBlack, quantity |-> 1],
    [product_ref |-> SkuGold, quantity |-> 1],
    [product_ref |-> SkuGold],
    [product_ref |-> SkuGold, quantity |-> 0] }

ItemLists ==
  { << >> } \cup
  { << x >> \o rest : x \in RefItems \cup OddItems,
                      rest \in UNION { SeqsOfLen(SecondItems, n) : n \in 0..(MaxItems - 1) } }

SaleCases ==
  { [user_input |-> TextSale, operation_type |-> "REGISTER_SALE",
     normalized_entities |-> [items |-> its, status |-> status]] :
       its \in ItemLists, status \in { "PAID", "PENDING" } }
  \cup { [user_input |-> TextHinted, operation_type |-> "REGISTER_SALE",
          normalized_entities |-> [items |-> << [product_ref |-> pulseras, quantity |-> 1] >>]],
         [user_input |-> TextSale, operation_type |-> "REGISTER_SALE",
          normalized_entities |-> [status |-> "PAID"]] }

StockCases ==
  { [user_input |-> TextPlain, operation_type |-> "ADD_STOCK", normalized_entities |-> e] :
      e \in { [product_ref |-> SkuBlack, quantity |-> 1],
              [product_ref |-> SkuBlack, quantity |-> 1, movement_type |-> "ADJUSTMENT"],
              [product_ref |-> SkuBlack],
              [quantity |-> 1],
              [product_ref |-> anillo, quantity |-> 1] }
        \cup { [items |-> its] : its \in ItemLists } }

ExpenseCases ==
  { [user_input |-> TextPlain, operation_type |-> "REGISTER_EXPENSE",
     normalized_entities |-> e] :
      e \in { [amount |-> 7, description |-> Envios], [amount |-> 7],
              [description |-> Envios], [category |-> Envios] } }

ProductCases ==
  { [user_input |-> u, operation_type |-> "REGISTER_PRODUCT", normalized_entities |-> e] :
      u \in { TextPlain, TextRegister },
      e \in { [name |-> aros, unit_price |-> 10], [name |-> aros], [unit_price |-> 10],
              [name |-> aros, unit_price |-> 10, sku |-> SkuBlack] } }

OtherCases ==
  { [user_input |-> TextPlain, operation_type |-> op, normalized_entities |-> e] :
      op \in { "CANCEL_SALE", "CANCEL_EXPENSE", "CANCEL_STOCK" },
      e \in { [reason |-> Envios], [target |-> 1], [target |-> 2] } }
  \cup { [user_input |-> TextPlain, operation_type |-> op,
          normalized_entities |-> [product_ref |-> SkuBlack]] :
           op \in { "CANCEL_LAST_OPERATION", "DEACTIVATE_PRODUCT", "UNKNOWN" } }

WriteCases == SaleCases \cup StockCases \cup ExpenseCases \cup ProductCases \cup OtherCases

Intents ==
  { "READ_ANALYTICS", "WRITE_OPERATION", "MIXED", "GREETING", "AMBIGUOUS", "OTHER" }

ConfidenceLevels == { 0, ConfidenceThreshold - 1, ConfidenceThreshold, 95 }

\* what the classifier chain may return for a request: a write operation
\* it is confident of, any intent at any confidence, or an exception
Classifications ==
  { [outcome |-> "ok", user_input |-> c.user_input, intent |-> i, confidence |-> conf,
     operation_type |-> c.operation_type, missing_fields |-> << >>,
     normalized_entities |-> c.normalized_entities] :
       c \in WriteCases, i \in { "WRITE_OPERATION", "MIXED" },
       conf \in { ConfidenceThreshold } }
  \cup
  { [outcome |-> "ok", user_input |-> TextSale, intent |-> i, confidence |-> conf,
     operation_type |-> "REGISTER_SALE", missing_fields |-> m,
     normalized_entities |-> [items |-> << x >>]] :
       i \in Intents, conf \in ConfidenceLevels,
       m \in { << >>, << Field("quantity") >>, << Field("product_ref"), Field("quantity") >> },
       x \in { [product_ref |-> SkuBlack, quantity |-> 1], [product_ref |-> SkuBlack] } }
  \cup
  { [outcome |-> "raise", user_input |-> u] : u \in { TextSale, TextPlain } }

InitPipeline ==
  /\ \E D \in RequestLedgers : Load(D) /\ db0 = D
  /\ now = 2
  /\ last = NoOp
  /\ pre_sale = NoSale
  /\ pc = "router"
  /\ \E c \in Classifications : st = initial_state(c.user_input)
  /\ path = << >>
  /\ classified = Unclassified
  /\ seen = NoRows
  /\ registered = << >>
  /\ resolution = NoResolution
  /\ NoServer

Ran(node) == path' = Append(path, node)

RouterNode ==
  /\ pc = "router"
  /\ \E result \in { c \in Classifications : c.user_input = st.user_input } :
       /\ st' = Update(st, route_intent(st, result))
       /\ pc' = route_to_next_node(st')
       /\ classified' = result
  /\ Ran("router")
  /\ UNCHANGED << ledger, now, last, pre_sale, db0, seen, registered, resolution, server >>

\* the model is asked about an item when the fuzzy match of its reference
\* gives several candidates, or a single one below 0.9
AsksModel(D, item) ==
  /\ ~Has(item, "product_id")
  /\ ProductRefOf(item) # << >>
  /\ LET Asked(candidates) ==
           \/ Len(candidates) > 1
           \/ Len(candidates) = 1 /\ ~ScoreAtLeast90(candidates[1].score)
     IN Asked(fuzzy_match_with_scores(D, ProductRefOf(item)))

\* the answers of the model that the resolution of the entities may use:
\* answers[k] for item k, answers[0] for the reference at the top level
LLMAnswers(D, state) ==
  LET entities == state.normalized_entities
      variant_hints == detect_variant_hints(state.user_input)
  IN { answers \in [0..MaxItems -> {0} \cup ProductIds] :
         /\ answers[0] # 0 => AsksModel(D, [product_ref |-> ProductRefOf(entities)])
         /\ \A k \in 1..MaxItems :
              answers[k] # 0 =>
                /\ Has(entities, "items")
                /\ k <= Len(entities.items)
                /\ AsksModel(D, apply_variant_hint(entities.items[k], variant_hints)) }

HashOrders(user_input) ==
  IF Cardinality(detect_variant_hints(user_input)) > 1 THEN VariantOrders
  ELSE { << dorada, negra, clasica >> }

NoAnswers == [k \in 0..MaxItems |-> 0]

ResolverNode ==
  /\ pc = "resolver"
  /\ \E lookup \in { "ok", "raise" } :
       \E answers \in IF lookup = "ok" THEN LLMAnswers(DB, st) ELSE { NoAnswers },
          order \in IF lookup = "ok" THEN HashOrders(st.user_input)
                                    ELSE { << dorada, negra, clasica >> } :
         /\ st' = Update(st, resolve_entities(DB, st, answers, order, lookup))
         /\ pc' = route_after_resolver(st')
  /\ Ran("resolver")
  /\ UNCHANGED << ledger, now, last, pre_sale, db0, classified, seen, registered, resolution, server >>

WriteAgentNode ==
  /\ pc = "write_agent"
  /\ \E pick \in LastPicks(DB) :
       LET Executed(outcome) ==
             /\ IF st.missing_fields # << >> THEN UNCHANGED ledger
                                             ELSE Commit(outcome.db)
             /\ st' = Update(st, execute_operation(st, outcome))
             /\ pc' = route_after_write(st')
       IN Executed(ExecTry(DB, st.operation_type, st.normalized_entities, now, pick))
  /\ Ran("write_agent")
  /\ UNCHANGED << now, last, pre_sale, db0, classified, seen, registered, resolution, server >>

ReadAgentNode ==
  /\ pc = "read_agent"
  /\ \E classification \in QueryTypes \cup { "GENERAL_QUERY", "raise" } :
       /\ st' = Update(st, execute_read(st, classification))
       /\ seen' = IF classification \in QueryTypes
                    THEN ReadRows(DB, classification) ELSE seen
  /\ pc' = "final_answer"
  /\ Ran("read_agent")
  /\ UNCHANGED << ledger, now, last, pre_sale, db0, classified, registered, resolution, server >>

FinalAnswerNode ==
  /\ pc = "final_answer"
  /\ st' = Update(st, [final_answer |-> format_final_answer(st)])
  /\ pc' = "END"
  /\ Ran("final_answer")
  /\ UNCHANGED << ledger, now, last, pre_sale, db0, classified, seen, registered, resolution, server >>

NextPipeline ==
  \/ RouterNode \/ ResolverNode \/ WriteAgentNode \/ ReadAgentNode \/ FinalAnswerNode

SpecPipeline == InitPipeline /\ [][NextPipeline]_vars

\* graph.invoke: as long as the run is not at END the node that is due is
\* executed.  Every node returns an update for every state (its body is
\* wrapped in try/except or is total), so a step of NextPipeline is possible
\* exactly when pc # "END", and such a step appends pc to the path.
invoke == pc # "END" /\ path' = Append(path, pc)

SpecPipelineFair == SpecPipeline /\ WF_path(invoke)

\* =====================================================================
\* whatsapp_server: the conversation memory
\* =====================================================================
MAX_HISTORY == 10
HISTORY_TIMEOUT == 2      \* timedelta(hours=2); the clock here counts hours
ContextWindow == 5        \* history[-5:]

Chats == { "a", "b" }
Respuesta == << "l","i","s","t","o" >>
Newline == << "\n" >>
ContextHeader ==
  << "C","o","n","t","e","x","t","o"," ","d","e"," ","c","o","n","v","e","r",
     "s","a","c","i","ó","n"," ","r","e","c","i","e","n","t","e",":" >>
Usuario == << "U","s","u","a","r","i","o",":"," " >>
Asistente == << "A","s","i","s","t","e","n","t","e",":"," " >>
MensajeActual ==
  << "M","e","n","s","a","j","e"," ","a","c","t","u","a","l",":"," " >>

\* s[-n:]
LastN(s, n) == IF Len(s) <= n THEN s ELSE SubSeq(s, Len(s) - n + 1, Len(s))

\* "\n".join(lines)
RECURSIVE JoinLines(_)
JoinLines(lines) ==
  IF lines = << >> THEN << >>
  ELSE IF Len(lines) = 1 THEN Head(lines)
  ELSE Head(lines) \o Newline \o JoinLines(Tail(lines))

\* the lines of the messages of the window
RECURSIVE ContextLines(_)
ContextLines(msgs) ==
  IF msgs = << >> THEN << >>
  ELSE (IF Head(msgs).role = "user" THEN << Usuario \o Head(msgs).content >>
        ELSE IF Head(msgs).role = "assistant"
          THEN << Asistente \o Head(msgs).content >>
        ELSE << >>)
       \o ContextLines(Tail(msgs))

\* get_conversation_context(chat_id) at time t: the text, and the memory
\* after the call (an expired history is cleared)
get_conversation_context(H, chat_id, t) ==
  IF chat_id \notin DOMAIN H THEN [context |-> << >>, history |-> H]
  ELSE IF H[chat_id] = << >> THEN [context |-> << >>, history |-> H]
  ELSE IF t - H[chat_id][Len(H[chat_id])].timestamp > HISTORY_TIMEOUT
    THEN [context |-> << >>, history |-> [H EXCEPT ![chat_id] = << >>]]
  ELSE [context |-> JoinLines(<< ContextHeader >>
                        \o ContextLines(LastN(H[chat_id], ContextWindow))),
        history |-> H]

\* add_to_history(chat_id, role, content) at time t
add_to_history(H, chat_id, role, content, t) ==
  [c \in DOMAIN H \cup { chat_id } |->
     IF c = chat_id
       THEN LastN(Append(IF c \in DOMAIN H THEN H[c] ELSE << >>,
                         [role |-> role, content |-> content, timestamp |-> t]),
                  MAX_HISTORY)
       ELSE H[c]]

\* process_message_with_agent: the user_input of the initial state
full_input(context, user_message) ==
  IF context # << >>
    THEN context \o Newline \o Newline \o MensajeActual \o user_message
    ELSE user_message

\* the messages of a chat that are in the memory
Stored(H, chat_id) == IF chat_id \in DOMAIN H THEN H[chat_id] ELSE << >>

\* the hours since the last message of the chat, -1 for a new chat
Idle(H, chat_id, t) ==
  IF Stored(H, chat_id) = << >> THEN -1
  ELSE t - Stored(H, chat_id)[Len(Stored(H, chat_id))].timestamp

Received ==
  Cardinality({ << c, i >> \in Chats \X (1..MAX_HISTORY) :
                  /\ i <= Len(Stored(conversation_history, c))
                  /\ Stored(conversation_history, c)[i].role = "user" })

InitChat ==
  /\ Load(LedgerEmpty)
  /\ now = 0
  /\ last = NoOp
  /\ pre_sale = NoSale
  /\ pc = "END"
  /\ st = initial_state(<< >>)
  /\ path = << >>
  /\ db0 = LedgerEmpty
  /\ classified = Unclassified
  /\ seen = NoRows
  /\ registered = << >>
  /\ resolution = NoResolution
  /\ NoServer

\* an hour without a message
HourPasses ==
  /\ now < MaxHours
  /\ now' = now + 1
  /\ UNCHANGED << ledger, last, pre_sale, pc, st, path, db0, classified, seen,
                  registered, resolution, server >>

\* run_whatsapp_server, one text message: the message is added to the
\* history, the agent is run with the context of the chat, the response is
\* added to the history
ReceiveMessage ==
  /\ Received < MaxMessages
  /\ \E chat_id \in Chats, user_message \in { TextPlain } :
       LET Answered(got) ==
             /\ conversation_history' =
                  add_to_history(got.history, chat_id, "assistant", Respuesta, now)
             /\ last' = [op |-> "message", status |-> "ok", why |-> "none",
                         chat_id |-> chat_id,
                         user_message |-> user_message,
                         idle |-> Idle(conversation_history, chat_id, now),
                         before |-> Stored(conversation_history, chat_id),
                         context |-> got.context,
                         user_input |-> full_input(got.context, user_message)]
       IN Answered(get_conversation_context(
                     add_to_history(conversation_history, chat_id, "user",
                                    user_message, now),
                     chat_id, now))
  /\ UNCHANGED << ledger, now, pre_sale, pc, st, path, db0, classified, seen,
                  registered, resolution, txn, DB_PATH, databases >>

NextChat == HourPasses \/ ReceiveMessage

SpecChat == InitChat /\ [][NextChat]_vars

\* =====================================================================
\* register_sale on several connections at once
\* =====================================================================
\* Every call opens its own connection (get_conn).  The SELECTs of steps 1
\* to 3 run in autocommit mode and read the committed database; the first
\* INSERT opens the transaction and takes the write lock of the file, which
\* one connection holds at a time; conn.commit() publishes the rows and
\* releases the lock.  A connection that finds the lock taken waits for it,
\* and gives up with "database is locked" when the wait is too long.
Conns == 1..MaxConns

Idle0 == [pc |-> "idle"]
Closed == [pc |-> "closed"]

\* (mutation) the stock is validated again when the rows are written
SaleInsert_Recheck(D, status, items, ts) ==
  register_sale(D, [status |-> status, items |-> items], ts)

\* steps 3 to 5 of register_sale for the resolved items: the totals, the
\* sale row, and per item the sale_items row and the OUT movement
SaleInsert(D, status, items, ts) ==
  LET r3 == SaleEnrich(D, items)
  IN IF r3.status # "ok" THEN Raise(D, r3.status, r3.why)
     ELSE IF SumField(r3.items, "line_total_cents") < 0 \/ status \notin SaleStatuses
       THEN Raise(D, "IntegrityError", "check")
     ELSE IF \E i \in DOMAIN r3.items : r3.items[i].quantity <= 0
       THEN Raise(D, "IntegrityError", "check")
     ELSE Ok([D EXCEPT
                !.sales = Append(@, [id |-> D.sale_seq + 1,
                           total_amount_cents |-> SumField(r3.items, "line_total_cents"),
                           status |-> status,
                           created_at |-> ts]),
                !.sale_seq = D.sale_seq + 1,
                !.sale_items = @ \o SaleItemRows(D.sale_seq + 1, r3.items),
                !.stock_movements =
                   IF status = "PAID" THEN @ \o SaleOutMovements(r3.items, ts)
                                      ELSE @],
             [sale_id |-> D.sale_seq + 1])

\* the write lock of the database file is free for connection c
WriteLockFree(T, c) == \A d \in Conns \ { c } : T[d].pc # "written"

RaceInputs ==
  { [status |-> s, items |-> << [product_id |-> p, quantity |-> q] >>] :
      s \in SaleStatuses, p \in ProductIds, q \in QtyInputs }

InitRace ==
  /\ Load(LedgerStocked)
  /\ now = 0
  /\ last = NoOp
  /\ pre_sale = NoSale
  /\ pc = "END"
  /\ st = initial_state(<< >>)
  /\ path = << >>
  /\ db0 = LedgerStocked
  /\ classified = Unclassified
  /\ seen = NoRows
  /\ registered = << >>
  /\ resolution = NoResolution
  /\ conversation_history = NoHistory
  /\ txn = [c \in Conns |-> Idle0]
  /\ DB_PATH = [p \in Processes |-> DefaultPath]
  /\ databases = NoDatabases

RaceUnchanged ==
  UNCHANGED << now, pre_sale, pc, st, path, db0, classified, seen, registered,
               resolution, conversation_history, DB_PATH, databases >>

\* steps 1 and 2 on connection c: the items are resolved and the stock of a
\* PAID sale is validated against the committed database
SaleCheck(c) ==
  /\ txn[c].pc = "idle"
  /\ \E data \in RaceInputs :
       LET Checked(r1, r2) ==
             IF r1.status = "ok" /\ r2.status = "ok"
               THEN /\ txn' = [txn EXCEPT ![c] =
                                 [pc |-> "checked", status |-> data.status,
                                  items |-> r1.items,
                                  available |-> [p \in ProductIds |->
                                                   SaleAvailable(DB, p)]]]
                    /\ UNCHANGED last
               ELSE /\ txn' = [txn EXCEPT ![c] = Closed]
                    /\ last' = [op |-> "register_sale",
                                status |-> IF r1.status # "ok" THEN r1.status
                                                               ELSE r2.status,
                                why |-> IF r1.status # "ok" THEN r1.why ELSE r2.why,
                                conn |-> c]
       IN Checked(SaleResolveItems(DB, data.items),
                  IF data.status = "PAID"
                    THEN SaleValidateStock(DB, SaleResolveItems(DB, data.items).items)
                    ELSE [status |-> "ok"])
  /\ UNCHANGED ledger
  /\ RaceUnchanged

\* steps 3 to 5 on connection c, once it has the write lock: the rows are
\* in its transaction and the other connections do not see them
SaleWrite(c) ==
  /\ txn[c].pc = "checked"
  /\ WriteLockFree(txn, c)
  /\ LET Written(r) ==
           IF r.status = "ok"
             THEN /\ txn' = [txn EXCEPT ![c] =
                               [pc |-> "written", status |-> txn[c].status,
                                items |-> txn[c].items,
                                available |-> txn[c].available,
                                db |-> r.db, sale_id |-> r.info.sale_id]]
                  /\ UNCHANGED last
             ELSE /\ txn' = [txn EXCEPT ![c] = Closed]
                  /\ last' = [op |-> "register_sale", status |-> r.status,
                              why |-> r.info.why, conn |-> c]
     IN Written(SaleInsert(DB, txn[c].status, txn[c].items, now))
  /\ UNCHANGED ledger
  /\ RaceUnchanged

\* the wait for the write lock times out: sqlite3.OperationalError, the
\* connection rolls back and nothing is written
SaleLocked(c) ==
  /\ txn[c].pc = "checked"
  /\ ~WriteLockFree(txn, c)
  /\ txn' = [txn EXCEPT ![c] = Closed]
  /\ last' = [op |-> "register_sale", status |-> "OperationalError",
              why |-> "locked", conn |-> c]
  /\ UNCHANGED ledger
  /\ RaceUnchanged

\* conn.commit() on connection c
SaleCommit(c) ==
  /\ txn[c].pc = "written"
  /\ Commit(txn[c].db)
  /\ txn' = [txn EXCEPT ![c] = Closed]
  /\ last' = [op |-> "register_sale", status |-> "ok", why |-> "none",
              conn |-> c, sale_id |-> txn[c].sale_id,
              sale_status |-> txn[c].status, items |-> txn[c].items,
              available |-> txn[c].available]
  /\ RaceUnchanged

NextRace ==
  \E c \in Conns : SaleCheck(c) \/ SaleWrite(c) \/ SaleLocked(c) \/ SaleCommit(c)

SpecRace == InitRace /\ [][NextRace]_vars

\* =====================================================================
\* The multi-tenant entry points
\* =====================================================================
\* Every function of database.py connects to database.DB_PATH as it is when
\* the function is called (get_conn).  The WhatsApp server and the backend
\* are two processes, each with its own database module.
Tenants == { "+5491100000001", "+5491100000002" }

\* TenantManager.get_tenant_db_path
get_tenant_db_path(phone_number) == << "data/clients", phone_number, "business.db" >>

Paths == { DefaultPath } \cup { get_tenant_db_path(t) : t \in Tenants }

\* a database made from the default schema
NewLedger == [LedgerEmpty EXCEPT !.products = << >>]

\* what a request asks of the ledger: an expense of the tenant to register,
\* or the profit to read
TenantRequests ==
  [operation_type : { "REGISTER_EXPENSE" }, amount_cents : { 700, 900 }]
  \cup { [operation_type |-> "READ"] }

\* graph.invoke in a process: the agents call database.py, which connects to
\* the DB_PATH of the process
Invoked(path_now, request, entry, phone) ==
  LET Answer(r) ==
        /\ databases' = [databases EXCEPT ![path_now] = r.db]
        /\ last' = [op |-> entry, status |-> r.status, why |-> "none",
                    phone |-> phone, request |-> request.operation_type,
                    connected |-> path_now,
                    read |-> profit_summary(r.db)]
  IN IF request.operation_type = "REGISTER_EXPENSE"
       THEN Answer(register_expense(databases[path_now],
                                 [amount_cents |-> request.amount_cents], now))
       ELSE Answer(Ok(databases[path_now], [none |-> 0]))

InitTenants ==
  /\ Load(LedgerEmpty)
  /\ now = 0
  /\ last = NoOp
  /\ pre_sale = NoSale
  /\ pc = "END"
  /\ st = initial_state(<< >>)
  /\ path = << >>
  /\ db0 = LedgerEmpty
  /\ classified = Unclassified
  /\ seen = NoRows
  /\ registered = << >>
  /\ resolution = NoResolution
  /\ conversation_history = NoHistory
  /\ txn = NoTxn
  /\ DB_PATH = [p \in Processes |-> DefaultPath]
  /\ databases = [p \in Paths |-> NewLedger]

TenantsUnchanged ==
  UNCHANGED << ledger, now, pre_sale, pc, st, path, db0, classified, seen,
               registered, resolution, conversation_history, txn >>

TenantRoom(request, path_now) ==
  request.operation_type = "REGISTER_EXPENSE" =>
    Len(databases[path_now].expenses) < MaxExpenses

\* whatsapp_server_multitenant.process_message_with_agent for a registered
\* tenant: the tenant's path is computed and handed to
\* create_business_agent_graph, whose agents do not take it
WhatsAppMessage ==
  /\ \E phone \in Tenants, request \in TenantRequests :
       /\ TenantRoom(request, DB_PATH["whatsapp"])
       /\ Invoked(DB_PATH["whatsapp"], request, "whatsapp", phone)
  /\ UNCHANGED DB_PATH
  /\ TenantsUnchanged

\* backend chat_with_tenant: database.DB_PATH is set to the tenant's path,
\* then the cached graph is invoked; the handler has no await, so no other
\* request of the backend runs in between
ChatWithTenant ==
  /\ \E phone \in Tenants, request \in TenantRequests :
       /\ TenantRoom(request, get_tenant_db_path(phone))
       /\ DB_PATH' = [DB_PATH EXCEPT !["backend"] = get_tenant_db_path(phone)]
       /\ Invoked(get_tenant_db_path(phone), request, "chat_tenant", phone)
  /\ TenantsUnchanged

NextTenants == WhatsAppMessage \/ ChatWithTenant

SpecTenants == InitTenants /\ [][NextTenants]_vars

\* =====================================================================
\* Cancellations followed by cancellations
\* =====================================================================
\* an empty ledger with the catalog: every stock movement is written by an
\* operation of the behaviour; registered holds the operations the user
\* registered
InitUndo ==
  /\ Load(LedgerEmpty)
  /\ now = 0
  /\ last = NoOp
  /\ pre_sale = NoSale
  /\ pc = "END"
  /\ st = initial_state(<< >>)
  /\ path = << >>
  /\ db0 = LedgerEmpty
  /\ classified = Unclassified
  /\ seen = NoRows
  /\ registered = << >>
  /\ resolution = NoResolution
  /\ NoServer

UndoRoom(k) == Len(stock_movements) + k <= MaxUndoRows

UndoUnchanged ==
  UNCHANGED << now, pre_sale, pc, st, path, db0, classified, seen, resolution, server >>

\* a second passes
UndoTick ==
  /\ now < MaxClock
  /\ now' = now + 1
  /\ UNCHANGED << ledger, last, pre_sale, pc, st, path, db0, classified, seen,
                  registered, resolution, server >>

UndoAddStock ==
  /\ UndoRoom(1)
  /\ LET r == ExecTry(DB, "ADD_STOCK", [product_id |-> 1, quantity |-> 1], now,
                      [sale |-> 0, expense |-> 0, stock |-> 0])
     IN /\ Commit(r.db)
        /\ last' = [op |-> "add_stock", status |-> r.status, why |-> r.why]
        /\ registered' = IF r.status = "ok"
                           THEN Append(registered,
                                       [type |-> "STOCK", id |-> Len(stock_movements) + 1])
                           ELSE registered
  /\ UndoUnchanged

UndoRegisterSale ==
  /\ UndoRoom(1)
  /\ sale_seq < MaxSales
  /\ LET r == ExecTry(DB, "REGISTER_SALE",
                      [items |-> << [product_id |-> 1, quantity |-> 1] >>,
                       status |-> "PAID"], now,
                      [sale |-> 0, expense |-> 0, stock |-> 0])
     IN /\ Commit(r.db)
        /\ last' = [op |-> "register_sale", status |-> r.status, why |-> r.why]
        /\ registered' = IF r.status = "ok"
                           THEN Append(registered,
                                       [type |-> "SALE", id |-> DB.sale_seq + 1])
                           ELSE registered
  /\ UndoUnchanged

\* the executor runs CANCEL_LAST_OPERATION, or CANCEL_STOCK with target 'last'
UndoCancel ==
  \E operation_type \in { "CANCEL_LAST_OPERATION", "CANCEL_STOCK" },
     pick \in LastPicks(DB) :
    /\ UndoRoom(1)
    /\ LET r == ExecTry(DB, operation_type, << >>, now, pick)
           target == IF operation_type = "CANCEL_STOCK"
                       THEN [type |-> IF pick.stock = 0 THEN "NONE" ELSE "STOCK",
                             id |-> pick.stock]
                       ELSE get_last_operation(DB, pick)
       IN /\ Commit(r.db)
          /\ last' = [op |-> "cancel", status |-> r.status, why |-> r.why,
                      operation_type |-> operation_type,
                      target |-> target,
                      stock |-> StockOfAll(DB)]
    /\ UNCHANGED registered
    /\ UndoUnchanged

NextUndo == UndoTick \/ UndoAddStock \/ UndoRegisterSale \/ UndoCancel

SpecUndo == InitUndo /\ [][NextUndo]_vars

\* =====================================================================
\* Properties of the ledger operations
\* =====================================================================

\* the fold of the movements of product p, written as the two sums
RECURSIVE SumQty(_, _, _)
SumQty(ms, p, types) ==
  IF ms = << >> THEN 0
  ELSE (IF Head(ms).product_id = p /\ Head(ms).movement_type \in types
          THEN Head(ms).quantity ELSE 0)
       + SumQty(Tail(ms), p, types)

LedgerFold(p) ==
  SumQty(stock_movements, p, {"IN", "ADJUSTMENT"}) - SumQty(stock_movements, p, {"OUT"})

\* C1 as stated: for every product, the stock that the ledger reports and
\* that register_sale checks against equals sum(IN, ADJUSTMENT) - sum(OUT).
C1_StockIsFoldForAllProducts ==
  \A p \in DOMAIN products :
    /\ p \in StockViewRows(DB)
    /\ stock_current(DB, p) = LedgerFold(p)
    /\ SaleAvailable(DB, p) = LedgerFold(p)

\* C1 amended: for every active product the reported stock and the stock
\* register_sale checks against equal sum(IN, ADJUSTMENT) - sum(OUT); a
\* deactivated product has no row in the view and register_sale reads 0.
C1_StockIsFoldForActiveProducts ==
  \A p \in DOMAIN products :
    IF products[p].is_active = 1
      THEN /\ p \in StockViewRows(DB)
           /\ stock_current(DB, p) = LedgerFold(p)
           /\ SaleAvailable(DB, p) = LedgerFold(p)
      ELSE /\ p \notin StockViewRows(DB)
           /\ SaleAvailable(DB, p) = 0

C1_Witness ==
  \E p \in DOMAIN products :
    /\ products[p].is_active = 1
    /\ \E i \in DOMAIN stock_movements :
         stock_movements[i].product_id = p /\ stock_movements[i].movement_type = "OUT"
    /\ \E i \in DOMAIN stock_movements :
         stock_movements[i].product_id = p /\ stock_movements[i].movement_type = "ADJUSTMENT"
    /\ \E q \in DOMAIN products : products[q].is_active = 0 /\ LedgerFold(q) > 0

\* C2 as stated: no operation appends an OUT movement that leaves the stock
\* of the movement's product below zero.
C2_NoOutBelowZero ==
  [][ \A i \in DOMAIN stock_movements' :
        (i > Len(stock_movements) /\ stock_movements'[i].movement_type = "OUT")
          => SumQty(stock_movements', stock_movements'[i].product_id, {"IN", "ADJUSTMENT"})
               - SumQty(stock_movements', stock_movements'[i].product_id, {"OUT"}) >= 0 ]_vars

\* C3: a PAID register_sale with an item whose available stock is lower
\* than the requested quantity fails with the stock-insufficiency error and
\* leaves every table as it was.
C3_InsufficientStockLeavesLedger ==
  [][ (last'.op = "register_sale" /\ last'.sale_status = "PAID" /\ last'.short > 0)
        => /\ last'.status = "ValueError"
           /\ last'.why = "insufficient_stock"
           /\ DB' = DB ]_vars

C3_Witness ==
  /\ last.op = "register_sale"
  /\ last.sale_status = "PAID"
  /\ last.short > 0
  /\ last.short < last.items
  /\ last.status = "ValueError"

\* C4: register_sale followed at once by cancel_sale of the returned sale
\* restores every product's stock, the paid revenue and the profit, and the
\* sale and its items are gone.
C4_RegisterCancelRoundTrip ==
  (last.op = "cancel_sale" /\ last.round_trip)
    => /\ StockOfAll(DB) = pre_sale.stock
       /\ \A p \in DOMAIN products : SaleAvailable(DB, p) = 
            (IF products[p].is_active = 1 THEN pre_sale.stock[p] ELSE 0)
       /\ revenue_paid(DB) = pre_sale.revenue
       /\ profit_summary(DB) = pre_sale.profit
       /\ \A i \in DOMAIN sales : sales[i].id # pre_sale.sale_id
       /\ \A i \in DOMAIN sale_items : sale_items[i].sale_id # pre_sale.sale_id

C4_Witness ==
  /\ last.op = "cancel_sale"
  /\ last.round_trip
  /\ pre_sale.status = "PAID"
  /\ pre_sale.items > 1
  /\ Len(stock_movements) >= Len(InitMovements) + 2 * pre_sale.items

\* =====================================================================
\* Properties of the executor and of the graph
\* =====================================================================

\* C5 as stated: an operation of the executor that fails leaves none of
\* its writes in the ledger, a multi-item ADD_STOCK request that fails on
\* a later item included.
C5_FailedOperationWritesNothing ==
  [][ (pc = "write_agent" /\ st'.operation_result = NoResult) => DB' = DB ]_vars

\* the classification of the request was trusted by the router
Trusted ==
  /\ "router" \in { path[k] : k \in DOMAIN path }
  /\ classified.outcome = "ok"
  /\ classified.confidence >= ConfidenceThreshold

Nodes(p) == { p[k] : k \in DOMAIN p }

\* C6: a confidence below 0.6 makes the intent AMBIGUOUS whatever the
\* classifier returned, the response is the router's clarification text and
\* neither resolver, executor nor analytics runs; a confidence of 0.6 or
\* more keeps the classifier's intent.
C6_LowConfidenceAsksForClarification ==
  (classified.outcome = "ok" /\ path # << >>)
    => IF classified.confidence < ConfidenceThreshold
         THEN /\ st.intent = "AMBIGUOUS"
              /\ Nodes(path) \subseteq { "router", "final_answer" }
              /\ pc \in { "final_answer", "END" }
              /\ pc = "END" => st.final_answer = << "Tengo dudas sobre lo que necesitas" >>
         ELSE st.intent = classified.intent

C6_Witness ==
  /\ pc = "END"
  /\ classified.outcome = "ok"
  /\ classified.confidence = ConfidenceThreshold - 1
  /\ classified.intent = "WRITE_OPERATION"
  /\ classified.missing_fields # << >>
  /\ st.final_answer = << "Tengo dudas sobre lo que necesitas" >>

Edges ==
  { << "router", "read_agent" >>, << "router", "resolver" >>,
    << "router", "final_answer" >>, << "resolver", "write_agent" >>,
    << "resolver", "final_answer" >>, << "write_agent", "read_agent" >>,
    << "write_agent", "final_answer" >>, << "read_agent", "final_answer" >>,
    << "final_answer", "END" >> }

\* C7: a run starts at the router and follows only the edges of the graph;
\* executor to analytics only for a MIXED intent when the executor reported
\* no error, resolver to executor only when the resolver reported neither
\* an error nor a missing field.
C7_RunFollowsTheEdges ==
  [][ /\ path = << >> => pc = "router"
      /\ pc' # pc => << pc, pc' >> \in Edges
      /\ (pc = "write_agent" /\ pc' = "read_agent")
           => st'.intent = "MIXED" /\ st'.error = None
      /\ (pc = "resolver" /\ pc' = "write_agent")
           => st'.error = None /\ st'.missing_fields = << >> ]_vars

C7_Witness ==
  /\ pc = "final_answer"
  /\ path = << "router", "resolver", "write_agent" >>
  /\ st.intent = "MIXED"
  /\ st.error # None

NoStageTwice(p) == \A j, k \in DOMAIN p : p[j] = p[k] => j = k

\* C8: whatever the classifier returns and whatever the later stages do,
\* the run reaches the final stage, after at most five stage executions
\* and without executing a stage twice.
C8_EveryRequestTerminates ==
  /\ [](Len(path) <= 5 /\ NoStageTwice(path))
  /\ <>(pc = "END" /\ path[Len(path)] = "final_answer")

C8_Witness ==
  /\ pc = "END"
  /\ Len(path) = 5
  /\ classified.outcome = "ok"

\* C9 as stated: a MIXED request without missing field whose entities
\* resolve and whose write succeeds runs router, resolver, executor,
\* analytics, final; the analytics reads the ledger the write has left;
\* the response is the summary of the operation followed by the result of
\* the analytics.
C9_MixedWritesThenReads ==
  (/\ pc = "END"
   /\ Trusted
   /\ classified.intent = "MIXED"
   /\ classified.missing_fields = << >>
   /\ st.operation_result # NoResult)
    => /\ path = << "router", "resolver", "write_agent", "read_agent", "final_answer" >>
       /\ seen.query # "None" => seen = ReadRows(DB, seen.query)
       /\ st.final_answer = OperationSummary(st.operation_type) \o st.sql_result

\* a required field of the operation is absent from the entities
ItemIncomplete(item) ==
  \/ ~Has(item, "product_id") /\ ~Has(item, "product_ref")
  \/ ~Has(item, "quantity")

RequiredFieldAbsent(operation_type, entities) ==
  IF operation_type = "REGISTER_SALE"
    THEN \/ ~Has(entities, "items")
         \/ entities.items = << >>
         \/ \E k \in DOMAIN entities.items : ItemIncomplete(entities.items[k])
  ELSE IF operation_type = "ADD_STOCK"
    THEN IF Has(entities, "items") /\ entities.items # << >>
           THEN \E k \in DOMAIN entities.items : ItemIncomplete(entities.items[k])
           ELSE ItemIncomplete(entities)
  ELSE IF operation_type = "REGISTER_EXPENSE"
    THEN ~Has(entities, "amount_cents") \/ ~Has(entities, "description")
  ELSE IF operation_type = "REGISTER_PRODUCT"
    THEN ~Has(entities, "name") \/ ~Has(entities, "unit_price_cents")
  ELSE FALSE

Resolved_NoError ==
  \E k \in DOMAIN st.messages :
    st.messages[k] = Message("Resolver", << "Resolved entities" >>)

\* C10 as stated: when the classifier reports a missing field, or a
\* required field is absent from the entities after resolution, the run
\* ends with the request for the missing fields, the executor does not run
\* and the ledger is unchanged.
C10_MissingFieldAsksAndWritesNothing ==
  (/\ Trusted
   /\ classified.intent \in { "WRITE_OPERATION", "MIXED" }
   /\ \/ classified.missing_fields # << >>
      \/ Resolved_NoError /\ RequiredFieldAbsent(st.operation_type, st.normalized_entities))
    => /\ "write_agent" \notin Nodes(path)
       /\ DB = db0
       /\ pc = "END" => /\ st.missing_fields # << >>
                        /\ st.final_answer = MissingText(st.missing_fields)


\* the two texts of the graph that ask the user to say what they need
ClarificationTexts ==
  { << "Tengo dudas sobre lo que necesitas" >>,
    << "No estoy seguro de lo que necesitas" >> }

\* C11 as stated: when the classification call raises (an exception of the
\* model or of the parser of its response), the run ends, the intent is
\* AMBIGUOUS, only the router and the final answer ran, the ledger is
\* unchanged and the final response asks the user to clarify.
C11_ClassifierFailureAsksToClarify ==
  (classified.outcome = "raise" /\ pc = "END")
    => /\ st.intent = "AMBIGUOUS"
       /\ path = << "router", "final_answer" >>
       /\ DB = db0
       /\ st.final_answer \in ClarificationTexts


\* the rows of sale_items of a sale, in D
ItemsOfSale(D, sale_id) == SelectSeq(D.sale_items, LAMBDA i : i.sale_id = sale_id)

\* C12: a register_sale that succeeds with status PAID appends exactly one
\* OUT movement per item of the sale, in the order of the items and with
\* the product and the quantity of the item, and nothing else; one that
\* succeeds with status PENDING appends no movement and changes neither the
\* stock of any product nor the paid revenue.
C12_PaidSaleMovesStockPendingDoesNot ==
  [][ sale_seq' # sale_seq =>
        LET sold == ItemsOfSale(DB', sale_seq')
            added == SubSeq(stock_movements', Len(stock_movements) + 1,
                            Len(stock_movements'))
        IN /\ last'.op = "register_sale" /\ last'.status = "ok"
           /\ Len(sold) = last'.items
           /\ SubSeq(stock_movements', 1, Len(stock_movements)) = stock_movements
           /\ IF last'.sale_status = "PAID"
                THEN /\ Len(added) = Len(sold)
                     /\ \A k \in DOMAIN sold :
                          /\ added[k].movement_type = "OUT"
                          /\ added[k].product_id = sold[k].product_id
                          /\ added[k].quantity = sold[k].quantity
                ELSE /\ added = << >>
                     /\ StockOfAll(DB') = StockOfAll(DB)
                     /\ revenue_paid(DB') = revenue_paid(DB) ]_vars

C12_Witness ==
  /\ last.op = "register_sale"
  /\ last.status = "ok"
  /\ last.sale_status = "PAID"
  /\ last.items > 1
  /\ Len(ItemsOfSale(DB, sale_seq)) = last.items
  /\ Len(stock_movements) = Len(InitMovements) + last.items


CancelOf(D, op, ts) ==
  IF op.type = "SALE" THEN cancel_sale(D, op.id, ts)
  ELSE IF op.type = "EXPENSE" THEN cancel_expense(D, op.id)
  ELSE cancel_stock_movement(D, op.id, ts)

\* C14 as stated: after any sequence of registered sales, expenses and
\* stock additions, CANCEL_LAST_OPERATION applies the canceller of the kind
\* of the operation registered last to that operation, and when none was
\* registered it fails and leaves the ledger as it was.
C14_CancelsTheOperationRegisteredLast ==
  [][ last'.op = "cancel_last" =>
        IF registered = << >>
          THEN last'.status = "ValueError" /\ DB' = DB
          ELSE /\ last'.status = "ok"
               /\ DB' = CancelOf(DB, registered[Len(registered)], now).db ]_vars


\* C15 as stated: a request classified as the write operation
\* DEACTIVATE_PRODUCT whose reference resolved to a product that was active
\* ends with that product's active flag off, and with the product row, the
\* stock movements and the sales still stored.
C15_DeactivateRequestIsApplied ==
  (/\ pc = "END"
   /\ Trusted
   /\ classified.intent = "WRITE_OPERATION"
   /\ classified.operation_type = "DEACTIVATE_PRODUCT"
   /\ Has(st.normalized_entities, "product_id")
   /\ db0.products[st.normalized_entities.product_id].is_active = 1)
    => /\ products[st.normalized_entities.product_id].is_active = 0
       /\ [products EXCEPT ![st.normalized_entities.product_id].is_active = 1]
            = db0.products
       /\ stock_movements = db0.stock_movements
       /\ sales = db0.sales
       /\ sale_items = db0.sale_items


\* =====================================================================
\* Properties of the resolver
\* =====================================================================
\* a reference of generic words only: every word is a stop-word or a
\* product-type word, and a product-type word is among them
GenericOnly(product_ref) ==
  LET words == Split(Lower(product_ref))
  IN /\ \A k \in DOMAIN words : words[k] \in GenericWords
     /\ \E k \in DOMAIN words : words[k] \in GenericWords \ SkipWords

AsksToSpecify(result) ==
  /\ ~Has(result, "product_id")
  /\ Has(result, "resolution_error")
  /\ result.resolution_error = << "especifica cual producto" >>

\* C16 as stated: for a reference of generic words only, of one word or of
\* several, and at least two active products, resolve_product_reference
\* and resolve_product_reference_hybrid pick no product and both return the
\* resolution error that asks the user to specify.
C16_GenericReferenceIsNeverGuessed ==
  (/\ resolution # NoResolution
   /\ GenericOnly(resolution.product_ref)
   /\ Len(ActiveProducts(DB)) >= 2)
    => AsksToSpecify(resolution.plain) /\ AsksToSpecify(resolution.hybrid)


\* the language service is asked: a single candidate scored below 0.9, or
\* several candidates
ModelAsked(candidates) ==
  \/ Len(candidates) > 1
  \/ Len(candidates) = 1 /\ ~ScoreAtLeast90(candidates[1].score)

CandidateIds(candidates) == { candidates[k].id : k \in DOMAIN candidates }

\* C17 as stated: the hybrid resolver resolves without the language service
\* exactly when the scorer returns a single candidate scored 0.9 or more;
\* otherwise it asks the language service, and when the call fails or names
\* an id that is no candidate the result is the highest-scoring candidate;
\* a resolved product is always one of the scored candidates.
C17_HybridResolvesAmongTheCandidates ==
  resolution # NoResolution =>
    LET candidates == resolution.candidates
        result == resolution.hybrid
    IN /\ (Has(result, "product_id") /\ ~Has(result, "llm_used"))
            <=> (Len(candidates) = 1 /\ ScoreAtLeast90(candidates[1].score))
       /\ ModelAsked(candidates) =>
            /\ Has(result, "llm_used")
            /\ resolution.answer \notin CandidateIds(candidates) =>
                 result.product_id = candidates[1].id /\ ~result.llm_used
            /\ resolution.answer \in CandidateIds(candidates) =>
                 result.product_id = resolution.answer /\ result.llm_used
       /\ Has(result, "product_id") => result.product_id \in CandidateIds(candidates)

\* the number of meaningful words of a variation that occur in a name
MeaningfulMatches(words, name) ==
  Cardinality({ k \in DOMAIN words :
                  words[k] \notin GenericWords /\ WordMatches(words[k], normalize_text(name)) })

\* C18 as stated: every candidate's score lies in [0,1] and is the number
\* of meaningful words of the reference (of one of its translations) found
\* in the product's name over the number of its meaningful words; a
\* reference that is the SKU of a product yields that product alone,
\* scored 1.
C18_ScoresAreMeaningfulWordRatios ==
  resolution # NoResolution =>
    LET candidates == resolution.candidates
        variations == translate_product_terms(resolution.product_ref)
    IN IF ProductsBySku(DB, resolution.product_ref) # {}
         THEN /\ Len(candidates) = 1
              /\ candidates[1].id \in ProductsBySku(DB, resolution.product_ref)
              /\ candidates[1].score.num = candidates[1].score.den
         ELSE \A k \in DOMAIN candidates :
                /\ 0 <= candidates[k].score.num
                /\ candidates[k].score.num <= candidates[k].score.den
                /\ \E v \in DOMAIN variations :
                     LET words == Split(Lower(variations[v]))
                     IN candidates[k].score.num * MeaningfulWords(words)
                          = MeaningfulMatches(words, DB.products[candidates[k].id].name)
                              * candidates[k].score.den


\* the units of product p among the items
RECURSIVE UnitsOf(_, _)
UnitsOf(items, p) ==
  IF items = << >> THEN 0
  ELSE (IF Head(items).product_id = p THEN Head(items).quantity ELSE 0)
         + UnitsOf(Tail(items), p)

\* 5 units of product 2 at the catalog price, from a stock of 20
SaleOfFive ==
  register_sale(add_stock(LedgerEmpty, [product_id |-> 2, quantity |-> 20], 0).db,
                [items |-> << [product_id |-> 2, quantity |-> 5] >>, status |-> "PAID"], 1)

\* C19: a register_sale that succeeds stores, for each item, the quantity
\* times the item's own unit_price_cents when it has one and times the
\* catalog price of the product otherwise, stores their sum as the total of
\* the sale, and when the sale is PAID lowers the stock of each product by
\* the units sold of it; 5 units at 3500 from a stock of 20 give the total
\* 17500 and the stock 15.
C19_SaleTotalsAndStock ==
  [][ sale_seq' # sale_seq =>
        LET data == last'.data
            rows == ItemsOfSale(DB', sale_seq')
            sale == SelectSeq(sales', LAMBDA s : s.id = sale_seq')[1]
        IN /\ Len(rows) = Len(data.items)
           /\ \A k \in DOMAIN rows :
                /\ rows[k].unit_price_cents =
                     (IF Has(data.items[k], "unit_price_cents")
                        THEN data.items[k].unit_price_cents
                        ELSE products[data.items[k].product_id].unit_price_cents)
                /\ rows[k].line_total_cents
                     = data.items[k].quantity * rows[k].unit_price_cents
           /\ sale.total_amount_cents = SumField(rows, "line_total_cents")
           /\ data.status = "PAID" =>
                \A p \in DOMAIN products :
                  stock_current(DB', p) = stock_current(DB, p) - UnitsOf(data.items, p)
           /\ SaleOfFive.status = "ok"
           /\ SaleOfFive.info.total = 17500
           /\ stock_current(SaleOfFive.db, 2) = 15 ]_vars

C19_Witness ==
  /\ last.op = "register_sale"
  /\ last.status = "ok"
  /\ last.sale_status = "PAID"
  /\ Has(last.data.items[1], "unit_price_cents")
  /\ last.data.items[1].unit_price_cents # products[last.data.items[1].product_id].unit_price_cents
  /\ sales[Len(sales)].total_amount_cents = last.data.items[1].unit_price_cents


\* =====================================================================
\* Properties of the profit
\* =====================================================================
RECURSIVE PaidTotal(_)
PaidTotal(rows) ==
  IF rows = << >> THEN 0
  ELSE (IF Head(rows).status = "PAID" THEN Head(rows).total_amount_cents ELSE 0)
         + PaidTotal(Tail(rows))

RECURSIVE AmountTotal(_)
AmountTotal(rows) ==
  IF rows = << >> THEN 0 ELSE Head(rows).amount_cents + AmountTotal(Tail(rows))

\* C20: after every register_sale, register_expense, cancel_sale and
\* cancel_expense the profit of the profit_summary view, and the profit the
\* operation returns, is the sum of the totals of the stored PAID sales
\* minus the sum of the amounts of the stored expenses; a PENDING sale
\* leaves the profit as it was, and cancel_expense of the expense that
\* register_expense has just stored brings back the profit of before.
C20_ProfitIsPaidRevenueMinusExpenses ==
  [][ /\ profit_summary(DB') = PaidTotal(sales') - AmountTotal(expenses')
      /\ last'.reported # << >> =>
           last'.reported[1] = PaidTotal(sales') - AmountTotal(expenses')
      /\ (last'.op = "register_sale" /\ last'.status = "ok"
            /\ last'.sale_status = "PENDING") =>
           profit_summary(DB') = profit_summary(DB)
      /\ (last'.op = "cancel_expense" /\ last'.round_trip) =>
           /\ profit_summary(DB') = last'.before
           /\ profit_summary(DB) = last'.before - 700 ]_vars

C20_Witness ==
  /\ last.op = "cancel_expense"
  /\ last.round_trip
  /\ \E k \in DOMAIN sales : sales[k].status = "PAID"
  /\ profit_summary(DB) = last.before
  /\ profit_summary(DB) > 0

\* =====================================================================
\* Properties of the conversation memory
\* =====================================================================

\* C21: when a chat has had no message for longer than HISTORY_TIMEOUT, its
\* next message is processed with an empty conversation context: the
\* user_input handed to the router is the message alone and carries none of
\* the messages stored before the silence.
C21_SilentChatStartsWithEmptyContext ==
  (last.op = "message" /\ last.idle > HISTORY_TIMEOUT) =>
    /\ last.context = << >>
    /\ last.user_input = last.user_message

\* =====================================================================
\* Properties of concurrent sales
\* =====================================================================

\* C22: two PAID sales of the same product that run at the same time can
\* both pass the stock check before either commits, and then both commit:
\* nothing serialises the check with the write.  A sale that has passed its
\* check and gets the write lock writes its sale row and one OUT movement per
\* item whatever the stock has become, its commit publishes exactly those
\* rows, and the check of a sale reads the committed stock only, also while
\* another sale has passed its own check and not committed.
C22_CheckedSalesBothCommit ==
  [][\A c \in Conns :
       /\ (txn[c].pc = "checked" /\ txn'[c].pc # "checked" /\ WriteLockFree(txn, c)) =>
            /\ txn'[c].pc = "written"
            /\ txn'[c].db.sales = sales \o
                 << [id |-> sale_seq + 1,
                     total_amount_cents |->
                       SumField(SaleEnrich(DB, txn[c].items).items, "line_total_cents"),
                     status |-> txn[c].status, created_at |-> now] >>
            /\ txn'[c].db.stock_movements = stock_movements \o
                 (IF txn[c].status = "PAID"
                    THEN [i \in DOMAIN txn[c].items |->
                            Movement(txn[c].items[i].product_id, "OUT",
                                     txn[c].items[i].quantity, now)]
                    ELSE << >>)
       /\ (txn[c].pc = "written" /\ txn'[c].pc # "written") =>
            /\ stock_movements' = txn[c].db.stock_movements
            /\ sales' = txn[c].db.sales
       /\ (txn[c].pc = "idle" /\ txn'[c].pc = "checked" /\ txn'[c].status = "PAID") =>
            \A i \in DOMAIN txn'[c].items :
              stock_current(DB, txn'[c].items[i].product_id)
                >= txn'[c].items[i].quantity
  ]_vars

\* C22 (witness): two PAID sales of product 1 are committed, each passed its
\* check against a stock that covered its quantity, and the stock of the
\* product is below zero
C22_Witness ==
  /\ Len(sales) = 2
  /\ \A i \in 1..2 : sales[i].status = "PAID"
  /\ \A c \in Conns : txn[c].pc = "closed"
  /\ last.op = "register_sale" /\ last.status = "ok"
  /\ last.items[1].product_id = 1
  /\ last.available[1] >= last.items[1].quantity
  /\ stock_current(DB, 1) < 0

\* =====================================================================
\* Properties of the multi-tenant entry points
\* =====================================================================

\* C23: while a message of a tenant is processed, every ledger read and
\* write goes to that tenant's own database: the request connects to the
\* tenant's path, and no other database, of another tenant or the shared
\* default one, changes.
C23_RequestsStayInTheTenantDatabase ==
  [][\A phone \in Tenants :
       (last' # last /\ last'.op \in { "whatsapp", "chat_tenant" }
          /\ last'.phone = phone) =>
         /\ last'.connected = get_tenant_db_path(phone)
         /\ \A p \in Paths \ { get_tenant_db_path(phone) } :
              databases'[p] = databases[p]
  ]_vars

\* =====================================================================
\* Properties of unresolved product references
\* =====================================================================

\* the resolution errors that the resolver left in the entities: on the items
\* and on the top-level product reference
UnresolvedRefs(entities) ==
  (IF Has(entities, "items")
     THEN { entities.items[i].resolution_error :
              i \in { j \in DOMAIN entities.items :
                        /\ Has(entities.items[j], "resolution_error")
                        /\ ~Has(entities.items[j], "product_id") } }
     ELSE {})
  \cup
  (IF Has(entities, "resolution_error") /\ ~Has(entities, "product_id")
     THEN { entities.resolution_error } ELSE {})

\* the answer is one of the resolution errors, or the executor's failure
\* text that quotes the resolution error of the item
ShowsResolutionError(answer, errors) ==
  \/ answer \in errors
  \/ answer = << "Operacion fallida", "resolution_error" >>

\* C24: when a product reference of a write request (a sale item, a stock
\* item or the top-level reference) cannot be resolved, nothing is written
\* and the final response is the resolution error, which lists the catalog
\* products with the "please specify" or the "not found" wording.
C24_UnresolvedReferenceIsReported ==
  (/\ pc = "END"
   /\ "resolver" \in Nodes(path)
   /\ UnresolvedRefs(st.normalized_entities) # {}) =>
    /\ DB = db0
    /\ ShowsResolutionError(st.final_answer, UnresolvedRefs(st.normalized_entities))

\* =====================================================================
\* Properties of the variant forms
\* =====================================================================

\* the products of the catalog whose name carries the gold variant
GoldProducts == { p \in ProductIds : Infix(dorada, normalize_text(Catalog[p].name)) }

ResolvesTo(result, p) == Has(result, "product_id") /\ result.product_id = p

\* C25: with exactly one gold product in the catalog, 'doradas', 'dorada',
\* 'pulseras doradas' and 'gold' resolve to it, and so does every other form
\* of the reference: singular or plural, any letter case, with or without an
\* accent, the Spanish or the English word of the variant.
C25_VariantFormsResolveToTheSameProduct ==
  (/\ resolution # NoResolution
   /\ resolution.product_ref \in GoldReferences
   /\ Cardinality(GoldProducts) = 1
   /\ \A p \in GoldProducts : products[p].is_active = 1) =>
    \A p \in GoldProducts :
      /\ ResolvesTo(resolution.plain, p)
      /\ ResolvesTo(resolution.hybrid, p)


\* =====================================================================
\* Properties of deactivated products
\* =====================================================================

\* C26: once a product is deactivated no reference resolves to it, in
\* resolve_product_reference and in resolve_product_reference_hybrid.
C26_DeactivatedProductIsNotResolved ==
  resolution # NoResolution =>
    \A p \in ProductIds :
      products[p].is_active = 0 =>
        /\ ~ ResolvesTo(resolution.plain, p)
        /\ ~ ResolvesTo(resolution.hybrid, p)


\* =====================================================================
\* Properties of the stock level
\* =====================================================================

StockNonNegative(D) == \A p \in DOMAIN D.products : stock_current(D, p) >= 0

\* the step is one of the operations that add stock with a positive
\* quantity, sell or cancel
AddsSellsOrCancels ==
  \/ /\ last'.op = "add_stock"
     /\ Len(stock_movements') > Len(stock_movements) =>
          stock_movements'[Len(stock_movements')].quantity > 0
  \/ last'.op \in { "register_sale", "cancel_sale", "cancel_expense",
                    "cancel_stock_movement" }

\* C27: from a ledger whose stocks are all non-negative, add_stock with a
\* positive quantity, register_sale and the cancellations leave every
\* product's stock non-negative.
C27_StockStaysNonNegative ==
  [][ (StockNonNegative(DB) /\ AddsSellsOrCancels) => StockNonNegative(DB') ]_vars


\* =====================================================================
\* Properties of repeated cancellations
\* =====================================================================

\* C28: a stock movement is reversed at most once: a cancel_stock_movement of
\* the movement that the preceding cancel_stock_movement reversed is refused
\* and leaves the movement history and every stock as they were.
C28_MovementIsReversedAtMostOnce ==
  [][ (/\ last.op = "cancel_stock_movement"
       /\ last.status = "ok"
       /\ last'.op = "cancel_stock_movement"
       /\ last'.movement_id = last.movement_id) =>
        /\ last'.status # "ok"
        /\ stock_movements' = stock_movements
        /\ StockOfAll(DB') = StockOfAll(DB) ]_vars


\* =====================================================================
\* Properties of cancellations that follow cancellations
\* =====================================================================

\* C29: CANCEL_LAST_OPERATION and CANCEL_STOCK with target 'last' select a
\* stock movement that the user registered, never a compensating movement
\* that a cancellation appended.
C29_CompensatingMovementIsNeverTheLastOperation ==
  (last.op = "cancel" /\ last.target.type = "STOCK") =>
    \E i \in DOMAIN registered : registered[i] = last.target


\* =====================================================================
\* Properties of the entities of a new product
\* =====================================================================

\* C30: a REGISTER_PRODUCT request that the resolver hands to the executor
\* has a name, an integer unit_price_cents and a non-empty SKU that no
\* product of the catalog uses.
C30_HandedProductHasNamePriceAndFreshSku ==
  (pc = "write_agent" /\ st.operation_type = "REGISTER_PRODUCT") =>
    LET entities == st.normalized_entities
    IN /\ Has(entities, "name")
       /\ Has(entities, "unit_price_cents")
       /\ entities.unit_price_cents \in Int
       /\ Has(entities, "sku")
       /\ entities.sku # << >>
       /\ \A p \in DOMAIN products : products[p].sku # entities.sku

====
